---- MODULE Spec2Model ----
(***************************************************************************)
(* garp: the search pipeline (filter stage, result stage, heavy and PDF    *)
(* semaphores, timeout wrapper) and the streaming prefilters.              *)
(*                                                                         *)
(* Two specifications share this module:                                   *)
(*   SpecStream - the streaming prefilters as functions of a file's bytes, *)
(*                the term list and the cap (Init draws the inputs);       *)
(*   Spec       - SearchEngine.FilterCandidates / ExtractAndBuildResults   *)
(*                with their goroutines, channels and semaphores.          *)
(* Byte sizes are scaled down (see the size definitions); the control flow *)
(* is that of the source.                                                  *)
(***************************************************************************)
EXTENDS Integers, Sequences, FiniteSets, TLC

VARIABLES
    \* ---- SpecStream: one prefilter call ----
    sContent,   \* the bytes of the file (or of the ZIP entry)
    sWords,     \* the term list
    sCap,       \* capBytes
    sFault,     \* what fails in this call: nothing, open, stat or the k-th read
    sRes,       \* the outcome of the call, or NoRes before it
    \* ---- Spec: one search (Execute) ----
    nWords,           \* len(se.SearchWords)
    wordExcl,         \* len(wordExcludes) > 0
    extExcl,          \* extExcludes
    pdfBudget,        \* se.pdfBudget (0 = unlimited)
    ext,              \* file -> extension while the file is in play, else "?"
    mpc,              \* the orchestrator: enqueue, wait, results, rwait, done
    enq,              \* candidates sent to jobs so far
    jobs,             \* the jobs channel buffer
    jobsClosed,       \* close(jobs) done
    pc,               \* worker -> position in the worker loop / handleOne
    cur,              \* worker -> the file it is handling (0: none)
    pf,               \* worker -> found/decided of the prefilter it ran on that file
    gor,              \* thread -> state of the goroutine ExecuteWithTimeout spawned for it
    holds,            \* worker -> holds a slot of cm.sem
    holdsPdf,         \* worker -> holds a slot of pdfSem
    pg,               \* worker -> state of the PDF gate goroutine it waits for
    orphanHeavy,      \* extractor calls still running whose waiter timed out
    orphanPdf,        \* PDF gate goroutines still running whose waiter timed out
    pdfProcessed,     \* se.pdfProcessed
    pdfSkippedBudget, \* se.pdfSkippedBudget
    matchingFiles,    \* FilterCandidates' result, in append order
    processed,        \* the atomic progress counter
    ri,               \* ExtractAndBuildResults: index into matchingFiles
    results,          \* the result list
    crashed,          \* an unrecovered panic has terminated the process
    \* ---- SpecDiscovery: Execute up to the end of DiscoverCandidates ----
    dpc,              \* Execute/the walker: start, walk, wait, filter, done
    wIdx,             \* directory entries the WalkDir callback has been called for
    dProcessed,       \* the walker's processed counter
    paths,            \* the paths channel buffer: [id, ext] per path
    pathsClosed,      \* close(paths) done
    spc,              \* scan worker -> idle, exited
    matches,          \* the candidate list, in append order
    quitting,         \* the TUI model's quitting: q or ctrl+c was pressed while loading
    \* ---- history (not read by the program) ----
    delivered,        \* the processed count of the latest "discovery" progress delivery (-1: none yet)
    touched,          \* the extension of the file whose content the latest step read, else "none"
    lastDrop,         \* the drop the latest step made, if any: why, and the file's prefilter outcome
    panicRet          \* return values of ExecuteWithTimeout calls whose fn panicked

svars == <<sContent, sWords, sCap, sFault, sRes>>

cfgvars == <<nWords, wordExcl, extExcl, pdfBudget>>

\* what the orchestrator writes
mvars == <<mpc, enq, jobs, jobsClosed, ri, results>>

\* what a return of handleOne writes
hvars == <<ext, pc, cur, pf, holdsPdf, matchingFiles, processed>>

\* the heavy semaphore and the goroutines of ExecuteWithTimeout
xvars == <<gor, holds, orphanHeavy, panicRet>>

\* the PDF governor and gate
gvars == <<pg, orphanPdf, pdfProcessed, pdfSkippedBudget>>

pvars == <<mvars, hvars, xvars, gvars, crashed, lastDrop>>

\* the discovery stage
dvars == <<dpc, wIdx, dProcessed, paths, pathsClosed, spc, matches, quitting, delivered,
          touched>>

\* what no step of a search writes
fixed == <<svars, cfgvars, dvars>>

vars == <<svars, cfgvars, dvars, pvars>>

Min(a, b) == IF a < b THEN a ELSE b

(***************************************************************************)
(* Bytes.  " " stands for every non-word byte, the letters for word bytes. *)
(***************************************************************************)
Alphabet == {"a", "s", " "}

\* regexp \b: a word character is an ASCII letter, digit or underscore
IsWordChar(c) == c \in {"a", "s", "e"}

\* longest file modelled, in bytes
MaxLen == 7

Contents == UNION {[1..k -> Alphabet] : k \in 0..MaxLen}

\* the last term is longer than the overlap
WordLists == { << <<"a">> >>, << <<"a">>, <<"s">> >>, << <<"a", "s", "a", "s">> >> }

Faults == {"none", "open", "stat", "read1", "read2"}

\* sizes, scaled: 64 KiB chunk, 128 byte overlap, 10 MiB / 50 MiB size
\* classes and the 5 MiB / 10 MiB read limits that go with them
chunkSize == 3
overlap == 2
SizeLarge == 5
SizeHuge == 6
LimitLarge == 4
LimitHuge == 5

NoRes == [fn |-> "none"]

\* the pattern without its suffix group, \bword\b: no plural tolerance
MatchAtNoPlural(buf, w, i) ==
    LET e == i + Len(w) - 1
    IN  /\ e <= Len(buf)
        /\ \A k \in 1..Len(w) : buf[i + k - 1] = w[k]
        /\ (i = 1 \/ ~IsWordChar(buf[i - 1]))
        /\ (e = Len(buf) \/ ~IsWordChar(buf[e + 1]))

(***************************************************************************)
(* The pattern (?i)\b(?:word(?:es|s)?)\b matched against a buffer.         *)
(***************************************************************************)
BoundaryAfter(buf, j) == j = Len(buf) \/ ~IsWordChar(buf[j + 1])

MatchAt(buf, w, i) ==
    LET e == i + Len(w) - 1
    IN  /\ e <= Len(buf)
        /\ \A k \in 1..Len(w) : buf[i + k - 1] = w[k]
        /\ (i = 1 \/ ~IsWordChar(buf[i - 1]))
        /\ \/ BoundaryAfter(buf, e)
           \/ (e + 1 <= Len(buf) /\ buf[e + 1] = "s" /\ BoundaryAfter(buf, e + 1))
           \/ /\ e + 2 <= Len(buf)
              /\ buf[e + 1] = "e"
              /\ buf[e + 2] = "s"
              /\ BoundaryAfter(buf, e + 2)

ReMatch(buf, w) == \E i \in 1..Len(buf) : MatchAt(buf, w, i)

\* the last n elements of s (all of s when it is shorter)
Tail_n(s, n) == IF Len(s) <= n THEN s ELSE SubSeq(s, Len(s) - n + 1, Len(s))

\* the built-in byte limit for a file of the given size (statErr: the 10 MiB default)
BuiltinLimit(size, statErr) ==
    IF statErr THEN LimitHuge
    ELSE IF size > SizeHuge THEN LimitHuge
    ELSE IF size > SizeLarge THEN LimitLarge
    ELSE size

\* one Read call: <<n, rErr>>
ReadCall(content, total, toRead, fault, readNo) ==
    IF (fault = "read1" /\ readNo = 1) \/ (fault = "read2" /\ readNo = 2)
    THEN <<0, "err">>
    ELSE LET n == Min(toRead, Len(content) - total)
         IN  IF n = 0 THEN <<0, "EOF">> ELSE <<n, "nil">>

\* the overlap kept after a chunk of n bytes
KeepOverlap(combined, chunk, n) ==
    IF n >= overlap THEN Tail_n(chunk, overlap)
    ELSE IF Len(combined) >= overlap THEN Tail_n(combined, overlap)
    ELSE combined

Outcome(found, decided, total, why) ==
    [found |-> found, decided |-> decided, total |-> total, why |-> why]

(***************************************************************************)
(* The chunk loop of StreamContainsAllWordsDecidedWithCap.                 *)
(***************************************************************************)
RECURSIVE CapLoop(_, _, _, _, _, _, _, _, _)
CapLoop(content, words, maxBytes, capped, fault, total, prev, flags, readNo) ==
    IF total >= maxBytes
    THEN IF ~capped THEN Outcome(FALSE, TRUE, total, "limit")
         ELSE Outcome(FALSE, FALSE, total, "cap")
    ELSE LET toRead == Min(chunkSize, maxBytes - total)
             rd == ReadCall(content, total, toRead, fault, readNo)
             n == rd[1]
             chunk == SubSeq(content, total + 1, total + n)
             combined == prev \o chunk
             flags2 == IF n > 0
                       THEN [i \in 1..Len(words) |-> flags[i] \/ ReMatch(combined, words[i])]
                       ELSE flags
         IN  IF n > 0 /\ \A i \in 1..Len(words) : flags2[i]
             THEN Outcome(TRUE, TRUE, total, "found")
             ELSE IF rd[2] = "EOF" THEN Outcome(FALSE, TRUE, total + n, "eof")
             ELSE IF rd[2] = "err" THEN Outcome(FALSE, TRUE, total + n, "ioerr")
             ELSE CapLoop(content, words, maxBytes, capped, fault, total + n,
                          KeepOverlap(combined, chunk, n), flags2, readNo + 1)

StreamContainsAllWordsDecidedWithCap(content, words, capBytes, fault) ==
    IF Len(words) = 0 THEN Outcome(TRUE, TRUE, 0, "nowords")
    ELSE IF fault = "open" THEN Outcome(FALSE, TRUE, 0, "openerr")
    ELSE LET builtin == BuiltinLimit(Len(content), fault = "stat")
             capped == capBytes > 0 /\ capBytes < builtin
             maxBytes == IF capped THEN capBytes ELSE builtin
         IN  CapLoop(content, words, maxBytes, capped, fault, 0, <<>>,
                     [i \in 1..Len(words) |-> FALSE], 1)

\* the uncapped variant: the same loop, but reaching the built-in limit is
\* always reported as undecided
StreamContainsAllWordsDecided(content, words, fault) ==
    IF Len(words) = 0 THEN Outcome(TRUE, TRUE, 0, "nowords")
    ELSE IF fault = "open" THEN Outcome(FALSE, TRUE, 0, "openerr")
    ELSE CapLoop(content, words, BuiltinLimit(Len(content), fault = "stat"), TRUE,
                 fault, 0, <<>>, [i \in 1..Len(words) |-> FALSE], 1)

\* StreamContainsAllWords drops decided
StreamContainsAllWords(content, words, fault) ==
    StreamContainsAllWordsDecided(content, words, fault).found

(***************************************************************************)
(* Stage 1: the scan worker of FindFilesWithFirstWordProgress on one text  *)
(* file, looking for the first term.                                       *)
(***************************************************************************)
\* the 5 MiB scan budget and the 32 byte overlap, scaled
scanMaxBytes == 6
scanOverlap == 2

\* asciiIndexWholeWordCI: whole word, optional s / es plural
asciiIndexWholeWordCI(buf, wordLower) ==
    /\ Len(wordLower) > 0
    /\ Len(buf) >= Len(wordLower)
    /\ ReMatch(buf, wordLower)

ScanOutcome(found, total, why) ==
    [candidate |-> found \/ total >= scanMaxBytes, total |-> total, why |-> why]

\* the read buffer after a Read of n bytes at offset total: the bytes past n
\* are what earlier reads left there
BufAfterRead(buf, content, total, n) ==
    [i \in 1..chunkSize |-> IF i <= n THEN content[total + i] ELSE buf[i]]

\* the chunk loop; combined is built from buf[:toRead], not buf[:n]
RECURSIVE ScanLoop(_, _, _, _, _, _, _, _)
ScanLoop(content, w, fault, readTotal, prev, buf, found, readNo) ==
    IF readTotal >= scanMaxBytes THEN ScanOutcome(found, readTotal, "budget")
    ELSE LET toRead == Min(chunkSize, scanMaxBytes - readTotal)
             rd == ReadCall(content, readTotal, toRead, fault, readNo)
             n == rd[1]
             buf2 == BufAfterRead(buf, content, readTotal, n)
             combined == prev \o SubSeq(buf2, 1, toRead)
             found2 == found \/ (n > 0 /\ asciiIndexWholeWordCI(combined, w))
             prev2 == IF n = 0 THEN prev
                      ELSE IF n >= scanOverlap THEN SubSeq(buf2, n - scanOverlap + 1, n)
                      ELSE IF Len(combined) >= scanOverlap THEN Tail_n(combined, scanOverlap)
                      ELSE combined
         IN  IF rd[2] = "EOF" THEN ScanOutcome(found2, readTotal + n, "eof")
             ELSE IF rd[2] = "err" THEN ScanOutcome(found2, readTotal + n, "ioerr")
             ELSE ScanLoop(content, w, fault, readTotal + n, prev2, buf2, found2,
                           readNo + 1)

\* one path taken from the paths channel: a file that does not open is
\* passed over; a file of at most one chunk is read whole (a read error
\* leaves what was read so far); any other goes through the chunk loop
ScanWorker(content, w, fault) ==
    IF fault = "open" THEN [candidate |-> FALSE, total |-> 0, why |-> "openerr"]
    ELSE IF fault # "stat" /\ Len(content) <= chunkSize
    THEN LET data == IF fault = "read1" THEN <<>> ELSE content
         IN  [candidate |-> asciiIndexWholeWordCI(data, w), total |-> Len(data),
              why |-> IF fault = "read1" THEN "ioerr" ELSE "eof"]
    ELSE ScanLoop(content, w, fault, 0, <<>>, [i \in 1..chunkSize |-> " "], FALSE, 1)

(***************************************************************************)
(* The proximity predicate CheckTextContainsAllWords.  Positions are byte  *)
(* offsets of match starts, counted from 1.                                *)
(***************************************************************************)
ProxAlphabet == Alphabet \cup {"e", "."}

ProxMaxLen == 5

MaxDistance == 4

ProxTexts == UNION {[1..k -> ProxAlphabet] : k \in 0..ProxMaxLen}

ProxWordLists ==
    { << <<"a">> >>, << <<"a", "s">> >>,
      << <<"a">>, <<"s">> >>, << <<"a">>, <<"a", "s">> >>,
      << <<"a">>, <<"s">>, <<"e">> >>,
      << <<"a">>, <<"s", ".", "s">> >> }

\* regex.FindAllStringIndex: the start of every match of the term's pattern
Hits(text, w) == {i \in 1..Len(text) : MatchAt(text, w, i)}

\* the matches appended term by term: [pos, wordIndex]
AllMatches(text, words) ==
    UNION {{[pos |-> i, wordIndex |-> k] : i \in Hits(text, words[k])} : k \in 1..Len(words)}

\* sort.Slice by pos; it is not stable, so matches at one position come in
\* either order of their word index
SortKey(m, n, desc) == m.pos * (n + 1) + (IF desc THEN n - m.wordIndex ELSE m.wordIndex)

RECURSIVE SortMatches(_, _, _)
SortMatches(S, n, desc) ==
    IF S = {} THEN <<>>
    ELSE LET m == CHOOSE x \in S : \A y \in S : SortKey(x, n, desc) <= SortKey(y, n, desc)
         IN  <<m>> \o SortMatches(S \ {m}, n, desc)

\* the distance test one too wide, and one too narrow
WithinDistanceLoose(window, distance) == window <= distance + 1

WithinDistanceStrict(window, distance) == window < distance

\* if window <= distance
WithinDistance(window, distance) == window <= distance

\* the for right loop (Slide, at its head) and the shrink loop inside it
RECURSIVE Slide(_, _, _, _, _, _, _)
RECURSIVE Shrink(_, _, _, _, _, _, _)
Slide(ms, distance, required, counts, covered, left, right) ==
    IF right > Len(ms) THEN FALSE
    ELSE LET rw == ms[right].wordIndex
         IN  Shrink(ms, distance, required,
                    [counts EXCEPT ![rw] = @ + 1],
                    IF counts[rw] = 0 THEN covered + 1 ELSE covered,
                    left, right)

Shrink(ms, distance, required, counts, covered, left, right) ==
    IF covered = required /\ left <= right
    THEN IF WithinDistance(ms[right].pos - ms[left].pos, distance) THEN TRUE
         ELSE LET lw == ms[left].wordIndex
              IN  Shrink(ms, distance, required,
                         [counts EXCEPT ![lw] = @ - 1],
                         IF counts[lw] = 1 THEN covered - 1 ELSE covered,
                         left + 1, right)
    ELSE Slide(ms, distance, required, counts, covered, left, right + 1)

CheckTextContainsAllWords(text, words, distance, desc) ==
    IF Len(words) = 0 THEN TRUE
    ELSE IF Len(words) = 1 THEN Hits(text, words[1]) # {}
    ELSE LET S == AllMatches(text, words)
         IN  IF S = {} THEN FALSE
             ELSE Slide(SortMatches(S, Len(words), desc), distance, Len(words),
                        [k \in 1..Len(words) |-> 0], 0, 1, 1)

(***************************************************************************)
(* The word-exclude check.  Here " " is a space and "^" stands for a       *)
(* control byte (\x00-\x1f); all letters are lower case already, which is  *)
(* what strings.ToLower leaves them.                                       *)
(***************************************************************************)
ExclAlphabet == Alphabet \cup {"^"}

ExclMaxLen == 6

ExclContents == UNION {[1..k -> ExclAlphabet] : k \in 0..ExclMaxLen}

ExclWordLists == { << <<"a", "s">> >>, << <<"s">>, <<"a", "a">> >> }

\* the pattern (?i)\bword\b matched against text
containsWholeWord(text, word) ==
    \E i \in 1..Len(text) :
        LET e == i + Len(word) - 1
        IN  /\ e <= Len(text)
            /\ \A k \in 1..Len(word) : text[i + k - 1] = word[k]
            /\ (i = 1 \/ ~IsWordChar(text[i - 1]))
            /\ BoundaryAfter(text, e)

CheckTextContainsExcludeWords(text, excludeWords) ==
    \E i \in 1..Len(excludeWords) : containsWholeWord(text, excludeWords[i])

\* whitespaceRegex.ReplaceAllString(content, " ")
RECURSIVE NormalizeWhitespace(_)
NormalizeWhitespace(s) ==
    IF Len(s) <= 1 THEN s
    ELSE IF s[1] = " " /\ s[2] = " " THEN NormalizeWhitespace(Tail(s))
    ELSE <<s[1]>> \o NormalizeWhitespace(Tail(s))

RECURSIVE TrimSpace(_)
TrimSpace(s) ==
    IF s = <<>> THEN s
    ELSE IF s[1] = " " THEN TrimSpace(Tail(s))
    ELSE IF s[Len(s)] = " " THEN TrimSpace(SubSeq(s, 1, Len(s) - 1))
    ELSE s

\* CleanContent on text without markup: control characters are deleted,
\* whitespace runs become one space, the ends are trimmed
CleanContent(content) ==
    TrimSpace(NormalizeWhitespace(SelectSeq(content, LAMBDA c : c # "^")))

(***************************************************************************)
(* The excerpt builder ExtractMeaningfulExcerpts on cleaned text: one line *)
(* without markup.  Offsets are Go's, counted from 0; "." stands for the   *)
(* sentence terminators . ! ? and the text has no capital letter, digit or *)
(* listed abbreviation.                                                    *)
(***************************************************************************)
winMin == 4

winMax == 6

baseDefault == 3

\* maxContext/2, the window seeded by SetExcerptContextLimit(se.Distance)
maxContext(distance) ==
    LET base == IF distance <= 0 THEN baseDefault ELSE distance
        win == base * 2
    IN  (IF win < winMin THEN winMin ELSE IF win > winMax THEN winMax ELSE win) \div 2

\* termRE[k].FindAllStringIndex: the pattern (?i)\bterm\b has no plural suffix
termRE(cleaned, term) ==
    {i \in 0..(Len(cleaned) - 1) :
        LET e == i + Len(term)
        IN  /\ e <= Len(cleaned)
            /\ \A k \in 1..Len(term) : cleaned[i + k] = term[k]
            /\ (i = 0 \/ ~IsWordChar(cleaned[i]))
            /\ BoundaryAfter(cleaned, e)}

\* all = append(all, tmatch{pos: loc[0], idx: i})
termMatches(cleaned, words) ==
    UNION {{[pos |-> i, wordIndex |-> k] : i \in termRE(cleaned, words[k])} : k \in 1..Len(words)}

\* the sliding window over the sorted matches, at the head of the loop
\* "for covered == len(termRE)"; best is <<bestL, bestR>>
RECURSIVE MinSpan(_, _, _, _, _, _, _)
MinSpan(ms, required, counts, covered, l, r, best) ==
    IF covered = required
    THEN LET curL == ms[l].pos
             curR == ms[r].pos
             lw == ms[l].wordIndex
         IN  MinSpan(ms, required,
                     [counts EXCEPT ![lw] = @ - 1],
                     IF counts[lw] = 1 THEN covered - 1 ELSE covered,
                     l + 1, r,
                     IF best[1] = -1 \/ (curR - curL) < (best[2] - best[1])
                     THEN <<curL, curR>> ELSE best)
    ELSE IF r = Len(ms) THEN best
    ELSE LET rw == ms[r + 1].wordIndex
         IN  MinSpan(ms, required,
                     [counts EXCEPT ![rw] = @ + 1],
                     IF counts[rw] = 0 THEN covered + 1 ELSE covered,
                     l, r + 1, best)

\* the scan leftwards from start to a sentence terminator or the budget edge
ExpandLeft(cleaned, start, half) ==
    LET limitLeft == IF start - half < 0 THEN 0 ELSE start - half
        stops == {i \in (limitLeft + 1)..start : cleaned[i + 1] = "."}
        left == IF stops = {} THEN limitLeft
                ELSE CHOOSE i \in stops : \A j \in stops : j <= i
    IN  IF left > 0 /\ cleaned[left + 1] = "." THEN left + 1
        ELSE IF left <= limitLeft THEN limitLeft
        ELSE left

\* the scan rightwards from the given offset past the first sentence
\* terminator, or to the budget edge
ExpandRight(cleaned, from, half) ==
    LET limitRight == IF from + half > Len(cleaned) THEN Len(cleaned) ELSE from + half
        stops == {i \in from..(limitRight - 1) : cleaned[i + 1] = "."}
        right == IF stops = {} THEN limitRight
                 ELSE (CHOOSE i \in stops : \A j \in stops : i <= j) + 1
    IN  IF right >= limitRight THEN limitRight ELSE right

\* strings.TrimSpace(cleaned[left:right]) with whitespace runs collapsed
Snippet(cleaned, left, right) ==
    NormalizeWhitespace(TrimSpace(SubSeq(cleaned, left + 1, right)))

\* the rune loop of splitIntoSentences: sb is the sentence being built
RECURSIVE SplitLoop(_, _, _, _)
SplitLoop(runes, i, sb, sentences) ==
    LET flush(acc, b) == IF TrimSpace(b) = <<>> THEN acc ELSE Append(acc, TrimSpace(b))
    IN  IF i > Len(runes) THEN flush(sentences, sb)
        ELSE LET sb1 == Append(sb, runes[i])
                 nextIsSpace == i = Len(runes) \/ runes[i + 1] = " "
             IN  IF runes[i] = "." /\ nextIsSpace
                 THEN SplitLoop(runes, IF i < Len(runes) THEN i + 2 ELSE i + 1,
                                <<>>, flush(sentences, sb1))
                 ELSE SplitLoop(runes, i + 1, sb1, sentences)

splitIntoSentences(content) ==
    LET cleaned == CleanContent(content)
    IN  IF cleaned = <<>> THEN <<>>
        ELSE LET sentences == SplitLoop(cleaned, 1, <<>>, <<>>)
             IN  IF sentences = <<>> THEN <<cleaned>> ELSE sentences

\* containsWholeWord of the excerpt builder accepts the plural suffixes
containsAnySearchTerm(text, searchTerms) ==
    \E k \in 1..Len(searchTerms) : ReMatch(text, searchTerms[k])

\* strings.Join(parts, " ~ "), "~" standing for the ellipsis character
RECURSIVE JoinParts(_)
JoinParts(parts) ==
    IF Len(parts) = 0 THEN <<>>
    ELSE IF Len(parts) = 1 THEN parts[1]
    ELSE parts[1] \o <<" ", "~", " ">> \o JoinParts(Tail(parts))

\* the primary excerpt stitched from the window <<bestL, bestR>>
StitchWindow(cleaned, searchTerms, best, half) ==
    LET left == ExpandLeft(cleaned, best[1], half)
        right == ExpandRight(cleaned, best[2], half)
        snippet == TrimSpace(SubSeq(cleaned, left + 1, right))
        parts == SelectSeq(splitIntoSentences(snippet),
                           LAMBDA st : st # <<>> /\ containsAnySearchTerm(st, searchTerms))
    IN  IF snippet = <<>> THEN <<>>
        ELSE NormalizeWhitespace(IF Len(parts) > 0 THEN JoinParts(parts) ELSE snippet)

\* FindAllStringIndex(cleaned, 3) of every term in turn: [start, end]
RECURSIVE TermLocs(_, _, _, _, _)
TermLocs(cleaned, searchTerms, k, from, n) ==
    IF k > Len(searchTerms) THEN <<>>
    ELSE LET rest == {i \in termRE(cleaned, searchTerms[k]) : i >= from}
         IN  IF rest = {} \/ n = 0 THEN TermLocs(cleaned, searchTerms, k + 1, 0, 3)
             ELSE LET start == CHOOSE i \in rest : \A j \in rest : i <= j
                  IN  <<[start |-> start, end |-> start + Len(searchTerms[k])]>>
                      \o TermLocs(cleaned, searchTerms, k, start + 1, n - 1)

\* one sentence per match, without duplicates
RECURSIVE PerTermExcerpts(_, _, _, _)
PerTermExcerpts(locs, cleaned, half, excerpts) ==
    IF locs = <<>> THEN excerpts
    ELSE LET ex == Snippet(cleaned, ExpandLeft(cleaned, locs[1].start, half),
                           ExpandRight(cleaned, locs[1].end, half))
             seen == {excerpts[j] : j \in 1..Len(excerpts)}
         IN  PerTermExcerpts(Tail(locs), cleaned, half,
                             IF Len(excerpts) >= 10 \/ ex = <<>> \/ ex \in seen
                             THEN excerpts ELSE Append(excerpts, ex))

\* the last resort: the first occurrence of the first term that has one
FallbackExcerpt(cleaned, searchTerms, half) ==
    LET locs == TermLocs(cleaned, searchTerms, 1, 0, 1)
        exs == [j \in 1..Len(locs) |->
                   Snippet(cleaned, ExpandLeft(cleaned, locs[j].start, half),
                           ExpandRight(cleaned, locs[j].end, half))]
        good == SelectSeq(exs, LAMBDA ex : ex # <<>>)
    IN  IF good = <<>> THEN <<>> ELSE <<good[1]>>

\* ExtractMeaningfulExcerpts(cleanContent, se.SearchWords, 10); best is the
\* window <<bestL, bestR>> of the primary excerpt, <<-1, -1>> without one
ExtractMeaningfulExcerpts(cleaned, searchTerms, distance, desc) ==
    LET half == maxContext(distance)
        n == Len(searchTerms)
        S == termMatches(cleaned, searchTerms)
        best == IF n > 1 /\ S # {}
                THEN MinSpan(SortMatches(S, n, desc), n, [k \in 1..n |-> 0], 0, 1, 0,
                             <<-1, -1>>)
                ELSE <<-1, -1>>
        primary == IF best[1] >= 0 THEN StitchWindow(cleaned, searchTerms, best, half)
                   ELSE <<>>
        perTerm == PerTermExcerpts(TermLocs(cleaned, searchTerms, 1, 0, 3), cleaned, half, <<>>)
    IN  IF cleaned = <<>> \/ n = 0 THEN [excerpts |-> <<>>, best |-> <<-1, -1>>]
        ELSE IF primary # <<>> THEN [excerpts |-> <<primary>>, best |-> best]
        ELSE IF perTerm # <<>> THEN [excerpts |-> perTerm, best |-> best]
        ELSE [excerpts |-> FallbackExcerpt(cleaned, searchTerms, half), best |-> best]

\* GetFileContent: the file's bytes up to the limit of its size class
GetFileContent(content, fault) ==
    IF fault # "none" THEN [content |-> <<>>, err |-> TRUE]
    ELSE [content |-> SubSeq(content, 1, BuiltinLimit(Len(content), FALSE)),
          err |-> FALSE]

\* CheckFileContainsExcludeWords: the raw bytes read, lower-cased, are searched
CheckFileContainsExcludeWords(content, excludeWords, fault) ==
    IF Len(excludeWords) = 0 THEN [has |-> FALSE, err |-> FALSE]
    ELSE IF fault # "none" THEN [has |-> FALSE, err |-> TRUE]
    ELSE [has |-> CheckTextContainsExcludeWords(
                      SubSeq(content, 1, BuiltinLimit(Len(content), FALSE)),
                      excludeWords),
          err |-> FALSE]

(***************************************************************************)
(* The search pipeline.                                                    *)
(***************************************************************************)
\* candidate files of one search
NumFiles == 3

\* se.FilterWorkers
FilterWorkers == 3

\* se.HeavyConcurrency
HeavyConcurrency == 1

\* cap(pdfSem)
PdfSlots == 2

\* timed-out calls of one kind followed while they run on
MaxOrphans == 1

Files == 1..NumFiles
Workers == 1..FilterWorkers

\* the orchestrator's thread (Execute, ExtractAndBuildResults)
Main == FilterWorkers + 1
Threads == Workers \cup {Main}

\* one extension per class of handling: plain text, binary with a
\* streaming prefilter (docx stands for them) and PDF
Exts == {".txt", ".docx", ".pdf"}

IsBinaryFormat(e) == e \in {".docx", ".pdf"}

\* cap(jobs)
JobsCap == FilterWorkers * 4

candidateFiles == [i \in 1..NumFiles |-> i]

HeavyInUse == Cardinality({w \in Workers : holds[w]})
PdfInUse == Cardinality({w \in Workers : holdsPdf[w]})

\* extractor calls executing: those waited for and those given up on
HeavyRunning == Cardinality({t \in Threads : gor[t] = "running"}) + orphanHeavy

\* PDF scans and gate extractions executing
PdfRunning ==
    Cardinality({w \in Workers : pg[w] = "running" \/ pc[w] = "pdf_scan"}) + orphanPdf

ResultSet == {results[i] : i \in 1..Len(results)}

NoDrop == [why |-> "none", pf |-> "none"]

\* handleOne returns with the prefilter outcome o in hand (the deferred
\* pdfSem release runs); the worker appends the path if it matched and adds
\* one to the progress counter
Finish(w, matched, why, o) ==
    /\ pc' = [pc EXCEPT ![w] = "idle"]
    /\ cur' = [cur EXCEPT ![w] = 0]
    /\ pf' = [pf EXCEPT ![w] = "none"]
    /\ holdsPdf' = [holdsPdf EXCEPT ![w] = FALSE]
    /\ matchingFiles' = IF matched THEN Append(matchingFiles, cur[w]) ELSE matchingFiles
    /\ processed' = processed + 1
    /\ ext' = IF matched THEN ext ELSE [ext EXCEPT ![cur[w]] = "?"]
    /\ lastDrop' = IF matched THEN NoDrop ELSE [why |-> why, pf |-> o]

\* handleOne goes on to its next blocking point
Goto(w, loc, o) ==
    /\ pc' = [pc EXCEPT ![w] = loc]
    /\ pf' = [pf EXCEPT ![w] = o]
    /\ lastDrop' = NoDrop
    /\ UNCHANGED <<ext, cur, holdsPdf, matchingFiles, processed>>

\* GetFileContent fails or succeeds
IoResults == {"ok", "ioerr"}

\* the three outcomes of a streaming prefilter
PfOutcomes == {"found", "absent", "undecided"}

PipelineInit ==
    /\ ext = [f \in Files |-> "?"]
    /\ mpc = "enqueue"
    /\ enq = 0
    /\ jobs = <<>>
    /\ jobsClosed = FALSE
    /\ pc = [w \in Workers |-> "idle"]
    /\ cur = [w \in Workers |-> 0]
    /\ pf = [w \in Workers |-> "none"]
    /\ gor = [t \in Threads |-> "none"]
    /\ holds = [w \in Workers |-> FALSE]
    /\ holdsPdf = [w \in Workers |-> FALSE]
    /\ pg = [w \in Workers |-> "none"]
    /\ orphanHeavy = 0
    /\ orphanPdf = 0
    /\ pdfProcessed = 0
    /\ pdfSkippedBudget = 0
    /\ matchingFiles = <<>>
    /\ processed = 0
    /\ ri = 0
    /\ results = <<>>
    /\ crashed = FALSE
    /\ lastDrop = NoDrop
    /\ panicRet = {}

\* the scan workers of FindFilesWithFirstWordProgress
scanWorkers == 2

ScanWorkerIds == 1..scanWorkers

\* no search is in its discovery stage
DiscoveryIdle ==
    /\ dpc = "done"
    /\ wIdx = 0
    /\ dProcessed = 0
    /\ paths = <<>>
    /\ pathsClosed = TRUE
    /\ spc = [k \in ScanWorkerIds |-> "exited"]
    /\ matches = <<>>
    /\ quitting = FALSE
    /\ delivered = -1
    /\ touched = "none"

StreamIdle ==
    /\ sContent = <<>>
    /\ sWords = <<>>
    /\ sCap = 0
    /\ sFault = "none"
    /\ sRes = NoRes

Init ==
    /\ StreamIdle
    /\ DiscoveryIdle
    /\ nWords \in {1, 2}
    /\ wordExcl \in BOOLEAN
    /\ extExcl \in {{}, {".txt"}}
    /\ pdfBudget \in {0, 1}
    /\ PipelineInit

\* Enqueue with the loop index off by one: the first candidate is sent twice
EnqueueOffByOne ==
    /\ mpc = "enqueue"
    /\ enq < NumFiles
    /\ Len(jobs) < JobsCap
    /\ jobs' = Append(jobs, candidateFiles[IF enq = 0 THEN 1 ELSE enq])
    /\ enq' = enq + 1
    /\ lastDrop' = NoDrop
    /\ UNCHANGED <<mpc, jobsClosed, ri, results, hvars, xvars, gvars, crashed, fixed>>

\* Receive that reads the head of the channel without taking it out
ReceivePeek(w) ==
    /\ pc[w] = "idle"
    /\ jobs # <<>>
    /\ LET f == Head(jobs)
       IN  /\ cur' = [cur EXCEPT ![w] = f]
           /\ \E e \in Exts : ext' = [ext EXCEPT ![f] = e]
    /\ jobs' = jobs
    /\ pc' = [pc EXCEPT ![w] = "start"]
    /\ lastDrop' = NoDrop
    /\ UNCHANGED <<mpc, enq, jobsClosed, ri, results, pf, holdsPdf, matchingFiles,
                   processed, xvars, gvars, crashed, fixed>>

\* ---- the orchestrator: FilterCandidates' enqueue loop ----
Enqueue ==
    /\ mpc = "enqueue"
    /\ enq < NumFiles
    /\ Len(jobs) < JobsCap
    /\ jobs' = Append(jobs, candidateFiles[enq + 1])
    /\ enq' = enq + 1
    /\ lastDrop' = NoDrop
    /\ UNCHANGED <<mpc, jobsClosed, ri, results, hvars, xvars, gvars, crashed, fixed>>

CloseJobs ==
    /\ mpc = "enqueue"
    /\ enq = NumFiles
    /\ jobsClosed' = TRUE
    /\ mpc' = "wait"
    /\ lastDrop' = NoDrop
    /\ UNCHANGED <<enq, jobs, ri, results, hvars, xvars, gvars, crashed, fixed>>

\* ---- a filter worker: for filePath := range jobs ----
\* The workers run the same closure; of several idle ones the one with the
\* lowest number stands for whichever receives.
Receive(w) ==
    /\ pc[w] = "idle"
    /\ \A v \in Workers : v < w => pc[v] # "idle"
    /\ jobs # <<>>
    /\ LET f == Head(jobs)
       IN  /\ cur' = [cur EXCEPT ![w] = f]
           /\ \E e \in Exts : ext' = [ext EXCEPT ![f] = e]
    /\ jobs' = Tail(jobs)
    /\ pc' = [pc EXCEPT ![w] = "start"]
    /\ lastDrop' = NoDrop
    /\ UNCHANGED <<mpc, enq, jobsClosed, ri, results, pf, holdsPdf, matchingFiles,
                   processed, xvars, gvars, crashed, fixed>>

WorkerExit(w) ==
    /\ pc[w] = "idle"
    /\ \A v \in Workers : v < w => pc[v] # "idle"
    /\ jobs = <<>>
    /\ jobsClosed
    /\ pc' = [pc EXCEPT ![w] = "exited"]
    /\ lastDrop' = NoDrop
    /\ UNCHANGED <<mvars, ext, cur, pf, holdsPdf, matchingFiles, processed,
                   xvars, gvars, crashed, fixed>>

(***************************************************************************)
(* PDFPresenceOnlyPathCapped, as called with a single word.  A page is one *)
(* of: the word is on it, it is not, it is not within the kept prefix of a *)
(* page longer than the per-page cap, reading it panics, it has no text.   *)
(***************************************************************************)
PageKinds == {"hit", "miss", "trunc", "panic", "null"}

\* longest PDF modelled, in pages
MaxPages == 3

\* the maxPages argument of the call site (250, scaled)
PdfPageCapArg == 2

PdfFaults == {"none", "open", "stat", "reader", "numpage", "panic"}

\* a PDF: what fails on it, its pages, and the first loop iteration at
\* which time.Since(start) > maxDur
PdfDocs ==
    [fault : PdfFaults,
     pages : UNION {[1..k -> PageKinds] : k \in 0..MaxPages},
     slowFrom : 1..(MaxPages + 2)]

PdfOutcome(found, decided, pagePanic) ==
    [found |-> found, decided |-> decided, pagePanic |-> pagePanic]

\* the page loop and the verdict after it
RECURSIVE PdfPageLoop(_, _, _, _, _, _)
PdfPageLoop(doc, maxPages, i, truncatedEver, pagePanic, numPages) ==
    IF i > maxPages
    THEN IF doc.slowFrom > maxPages + 1 /\ maxPages >= numPages
         THEN IF truncatedEver THEN PdfOutcome(FALSE, FALSE, pagePanic)
              ELSE PdfOutcome(FALSE, TRUE, pagePanic)
         ELSE PdfOutcome(FALSE, FALSE, pagePanic)
    ELSE IF i >= doc.slowFrom THEN PdfOutcome(FALSE, FALSE, pagePanic)
    ELSE LET k == doc.pages[i]
         IN  IF k = "hit" THEN PdfOutcome(TRUE, TRUE, pagePanic)
             ELSE PdfPageLoop(doc, maxPages, i + 1, truncatedEver \/ k = "trunc",
                              pagePanic \/ k = "panic", numPages)

PDFPresenceOnlyPathCapped(doc, maxPagesArg) ==
    IF doc.fault \in {"open", "stat"} THEN PdfOutcome(FALSE, TRUE, FALSE)
    ELSE IF doc.fault \in {"reader", "numpage", "panic"}
    THEN PdfOutcome(FALSE, FALSE, FALSE)
    ELSE LET pages == Len(doc.pages)
             maxPages == IF maxPagesArg <= 0 \/ maxPagesArg > pages THEN pages
                         ELSE maxPagesArg
         IN  IF pages <= 0 THEN PdfOutcome(FALSE, FALSE, FALSE)
             ELSE PdfPageLoop(doc, maxPages, 1, FALSE, FALSE, pages)

\* every outcome the scan can have on some PDF
PdfScanOutcomes == {PDFPresenceOnlyPathCapped(d, PdfPageCapArg) : d \in PdfDocs}

\* handleOne, the word-exclude check: text files are read in place, binary
\* files go to a second extraction under cm
ExcludeCheck(w, o) ==
    IF ~wordExcl THEN Finish(w, TRUE, "none", o)
    ELSE IF IsBinaryFormat(ext[cur[w]])
    THEN \E io \in IoResults :
            IF io = "ioerr" THEN Finish(w, FALSE, "io-error", o)
            ELSE Goto(w, "acq_x", o)
    ELSE \E io \in IoResults, hasExclude \in BOOLEAN :
            IF io = "ioerr" THEN Finish(w, FALSE, "io-error", o)
            ELSE IF hasExclude THEN Finish(w, FALSE, "exclude-word", o)
            ELSE Finish(w, TRUE, "none", o)

\* CheckFileContainsAllWords on a file whose streaming prefilter has outcome
\* o: StreamContainsAllWords keeps only found of (found, decided); then
\* GetFileContent and CheckTextContainsAllWords(CleanContent(content))
CheckFileContainsAllWords(w, o) ==
    IF o # "found" THEN Finish(w, FALSE, "prefilter", o)
    ELSE \E io \in IoResults, prox \in BOOLEAN :
            IF io = "ioerr" THEN Finish(w, FALSE, "io-error", o)
            ELSE IF ~prox THEN Finish(w, FALSE, "proximity", o)
            ELSE ExcludeCheck(w, o)

\* handleOne for a text file: the consolidated prefilter (two or more
\* terms), then CheckFileContainsAllWords
TextFile(w) ==
    \E o \in PfOutcomes :
       IF nWords >= 2 /\ o = "absent"
       THEN Finish(w, FALSE, "prefilter", o)
       ELSE CheckFileContainsAllWords(w, o)

\* GetFileContent, then on to cm.Acquire for the extraction
ToExtract(w, o) ==
    \E io \in IoResults :
       IF io = "ioerr" THEN Finish(w, FALSE, "io-error", o)
       ELSE Goto(w, "acq_v", o)

\* BinaryStreamingPrefilterDecided returns, and what handleOne does with
\* its outcome
BinaryPrefilter(w) ==
    LET e == ext[cur[w]]
    IN  \E o \in PfOutcomes :
           /\ e = ".pdf" => o = "undecided"
           /\ IF o = "absent" THEN Finish(w, FALSE, "prefilter", o)
              ELSE IF nWords = 1 /\ e = ".pdf" THEN Goto(w, "pdf_gov", o)
              ELSE ToExtract(w, o)

\* handleOne from its entry to its first blocking point
Start(w) ==
    /\ pc[w] = "start"
    /\ LET e == ext[cur[w]]
       IN  IF e \in extExcl THEN Finish(w, FALSE, "ext-exclude", "none")
           ELSE IF ~IsBinaryFormat(e) THEN TextFile(w)
           ELSE IF nWords > 1 /\ e = ".pdf" THEN Goto(w, "pdf_gov", "none")
           ELSE BinaryPrefilter(w)
    /\ UNCHANGED <<mvars, xvars, gvars, crashed, fixed>>

\* BinaryStreamingPrefilterDecided panics while it reads the ZIP container.
\* Nothing between it and the worker goroutine's entry recovers, so the
\* process exits and every goroutine with it.
PrefilterPanic(w) ==
    /\ pc[w] = "start"
    /\ ext[cur[w]] = ".docx"
    /\ ext[cur[w]] \notin extExcl
    /\ crashed' = TRUE
    /\ pc' = [v \in Workers |-> "dead"]
    /\ mpc' = "dead"
    /\ gor' = [t \in Threads |-> "none"]
    /\ pg' = [v \in Workers |-> "none"]
    /\ orphanHeavy' = 0
    /\ orphanPdf' = 0
    /\ lastDrop' = NoDrop
    /\ UNCHANGED <<enq, jobs, jobsClosed, ri, results, ext, cur, pf, holdsPdf,
                   matchingFiles, processed, holds, panicRet, pdfProcessed,
                   pdfSkippedBudget, fixed>>

\* ---- the PDF gate ----
\* the budget test with > for >=: one PDF more than the budget gets through
PdfGovernorLoadStrict(w) ==
    /\ pc[w] = "pdf_gov"
    /\ IF pdfBudget > 0 /\ pdfProcessed > pdfBudget
       THEN /\ pdfSkippedBudget' = pdfSkippedBudget + 1
            /\ Finish(w, FALSE, "pdf-budget", pf[w])
       ELSE /\ pdfSkippedBudget' = pdfSkippedBudget
            /\ Goto(w, "pdf_add", pf[w])
    /\ UNCHANGED <<mvars, xvars, pg, orphanPdf, pdfProcessed, crashed, fixed>>

\* pdfGovernorAllow: the budget test (two atomic loads)
PdfGovernorLoad(w) ==
    /\ pc[w] = "pdf_gov"
    /\ IF pdfBudget > 0 /\ pdfProcessed >= pdfBudget
       THEN /\ pdfSkippedBudget' = pdfSkippedBudget + 1
            /\ Finish(w, FALSE, "pdf-budget", pf[w])
       ELSE /\ pdfSkippedBudget' = pdfSkippedBudget
            /\ Goto(w, "pdf_add", pf[w])
    /\ UNCHANGED <<mvars, xvars, pg, orphanPdf, pdfProcessed, crashed, fixed>>

\* pdfGovernorAllow: atomic.AddInt64(&se.pdfProcessed, 1)
PdfGovernorAdd(w) ==
    /\ pc[w] = "pdf_add"
    /\ pdfProcessed' = pdfProcessed + 1
    /\ Goto(w, "pdf_tok", pf[w])
    /\ UNCHANGED <<mvars, xvars, pg, orphanPdf, pdfSkippedBudget, crashed, fixed>>

\* select: pdfSem <- struct{}{} succeeds; with several terms the gate then
\* spawns pdf.ExtractAllTextCapped, with one term it scans in place
PdfAcquire(w) ==
    /\ pc[w] = "pdf_tok"
    /\ PdfInUse < PdfSlots
    /\ holdsPdf' = [holdsPdf EXCEPT ![w] = TRUE]
    /\ IF nWords > 1
       THEN pc' = [pc EXCEPT ![w] = "pdf_wait"] /\ pg' = [pg EXCEPT ![w] = "running"]
       ELSE pc' = [pc EXCEPT ![w] = "pdf_scan"] /\ pg' = pg
    /\ lastDrop' = NoDrop
    /\ UNCHANGED <<mvars, xvars, ext, cur, pf, matchingFiles, processed,
                   orphanPdf, pdfProcessed, pdfSkippedBudget, crashed, fixed>>

\* select: tokenTimer fires while pdfSem is full
PdfTokenTimeout(w) ==
    /\ pc[w] = "pdf_tok"
    /\ PdfInUse = PdfSlots
    /\ Finish(w, FALSE, "pdf-token-timeout", pf[w])
    /\ UNCHANGED <<mvars, xvars, gvars, crashed, fixed>>

\* select: r := <-resCh, the gate goroutine having sent what
\* pdf.ExtractAllTextCapped returned (a panic inside it is recovered there
\* and returns no match, no error); then the generic prefilter (undecided
\* for a PDF) and on to the extraction
PdfGateRecv(w) ==
    /\ pc[w] = "pdf_wait"
    /\ pg[w] = "running"
    /\ pg' = [pg EXCEPT ![w] = "none"]
    /\ \E r \in {"matched", "nomatch", "err"} :
          IF r = "err"
          THEN Finish(w, FALSE, "pdf-error", pf[w])
          ELSE BinaryPrefilter(w)
    /\ UNCHANGED <<mvars, xvars, orphanPdf, pdfProcessed, pdfSkippedBudget, crashed,
                   fixed>>

\* select: wallTimer fires; the gate goroutine runs on
PdfWallTimeout(w) ==
    /\ pc[w] = "pdf_wait"
    /\ pg[w] = "running"
    /\ orphanPdf < MaxOrphans
    /\ pg' = [pg EXCEPT ![w] = "none"]
    /\ orphanPdf' = orphanPdf + 1
    /\ Finish(w, FALSE, "pdf-wall-timeout", pf[w])
    /\ UNCHANGED <<mvars, xvars, pdfProcessed, pdfSkippedBudget, crashed, fixed>>

\* a gate goroutine nobody waits for any more ends
PdfOrphanEnd ==
    /\ orphanPdf > 0
    /\ orphanPdf' = orphanPdf - 1
    /\ lastDrop' = NoDrop
    /\ UNCHANGED <<mvars, hvars, xvars, pg, pdfProcessed, pdfSkippedBudget, crashed,
                   fixed>>

\* one term: PDFPresenceOnlyPathCapped runs in the worker itself
PdfScan(w) ==
    /\ pc[w] = "pdf_scan"
    /\ \E o \in PdfScanOutcomes :
          IF o.decided /\ ~o.found
          THEN Finish(w, FALSE,
                      IF o.pagePanic THEN "pdf-absent-page-panic" ELSE "pdf-absent",
                      "absent")
          ELSE ExcludeCheck(w, IF o.found THEN "found" ELSE "undecided")
    /\ UNCHANGED <<mvars, xvars, gvars, crashed, fixed>>

\* ---- extraction under the heavy semaphore ----
\* cm.Acquire, then ExecuteWithTimeout spawns fn
Acquire(w) ==
    /\ pc[w] \in {"acq_v", "acq_x"}
    /\ HeavyInUse < HeavyConcurrency
    /\ holds' = [holds EXCEPT ![w] = TRUE]
    /\ gor' = [gor EXCEPT ![w] = "running"]
    /\ Goto(w, IF pc[w] = "acq_v" THEN "wait_v" ELSE "wait_x", pf[w])
    /\ UNCHANGED <<mvars, gvars, orphanHeavy, panicRet, crashed, fixed>>

\* the goroutine of ExecuteWithTimeout: fn panics, the deferred recover
\* swallows the panic, close(done) is not reached
FnPanic(t) ==
    /\ gor[t] = "running"
    /\ gor' = [gor EXCEPT ![t] = "panicked"]
    /\ lastDrop' = NoDrop
    /\ UNCHANGED <<mvars, hvars, gvars, holds, orphanHeavy, panicRet, crashed, fixed>>

\* fn returns, done is closed, select takes <-done: ExecuteWithTimeout
\* returns nil; cm.Release
WaitDone(w) ==
    /\ pc[w] \in {"wait_v", "wait_x"}
    /\ gor[w] = "running"
    /\ gor' = [gor EXCEPT ![w] = "none"]
    /\ holds' = [holds EXCEPT ![w] = FALSE]
    /\ \E extErr \in BOOLEAN :
          IF extErr THEN Finish(w, FALSE, "extract-error", pf[w])
          ELSE IF pc[w] = "wait_v"
          THEN \E prox \in BOOLEAN :
                  IF prox THEN ExcludeCheck(w, pf[w])
                  ELSE Finish(w, FALSE, "proximity", pf[w])
          ELSE \E hasExclude \in BOOLEAN :
                  IF hasExclude THEN Finish(w, FALSE, "exclude-word", pf[w])
                  ELSE Finish(w, TRUE, "none", pf[w])
    /\ UNCHANGED <<mvars, gvars, orphanHeavy, panicRet, crashed, fixed>>

\* select takes <-time.After(timeout): ExecuteWithTimeout returns the
\* timeout error; cm.Release; fn, if it is still running, runs on
WaitTimeout(w) ==
    /\ pc[w] \in {"wait_v", "wait_x"}
    /\ gor[w] = "running" => orphanHeavy < MaxOrphans
    /\ gor' = [gor EXCEPT ![w] = "none"]
    /\ holds' = [holds EXCEPT ![w] = FALSE]
    /\ orphanHeavy' = IF gor[w] = "running" THEN orphanHeavy + 1 ELSE orphanHeavy
    /\ panicRet' = IF gor[w] = "panicked" THEN panicRet \cup {"timeout"} ELSE panicRet
    /\ Finish(w, FALSE, "timeout", pf[w])
    /\ UNCHANGED <<mvars, gvars, crashed, fixed>>

\* an extractor call nobody waits for any more ends
OrphanEnd ==
    /\ orphanHeavy > 0
    /\ orphanHeavy' = orphanHeavy - 1
    /\ lastDrop' = NoDrop
    /\ UNCHANGED <<mvars, hvars, gvars, gor, holds, panicRet, crashed, fixed>>

\* ---- the orchestrator: wg.Wait, Execute, ExtractAndBuildResults ----
WaitWorkers ==
    /\ mpc = "wait"
    /\ \A w \in Workers : pc[w] = "exited"
    /\ IF matchingFiles = <<>>
       THEN mpc' = "done" /\ ri' = ri
       ELSE mpc' = "results" /\ ri' = 1
    /\ lastDrop' = NoDrop
    /\ UNCHANGED <<enq, jobs, jobsClosed, results, hvars, xvars, gvars, crashed, fixed>>

\* the loop of ExtractAndBuildResults moves to the next path
NextResult ==
    /\ ri' = ri + 1
    /\ mpc' = IF ri + 1 > Len(matchingFiles) THEN "done" ELSE "results"

\* the loop skips the path (continue)
Skip(f, why) ==
    /\ results' = results
    /\ ext' = [ext EXCEPT ![f] = "?"]
    /\ lastDrop' = [why |-> why, pf |-> "none"]

\* the result put in front of the list, and the result put before every
\* result discovered earlier
KeepFront(f) ==
    /\ results' = <<f>> \o results
    /\ ext' = ext
    /\ lastDrop' = NoDrop

KeepDescending(f) ==
    /\ results' = SelectSeq(results, LAMBDA g : g > f) \o <<f>>
                      \o SelectSeq(results, LAMBDA g : g < f)
    /\ ext' = ext
    /\ lastDrop' = NoDrop

\* the loop appends a result for the path
Keep(f) ==
    /\ results' = Append(results, f)
    /\ ext' = ext
    /\ lastDrop' = NoDrop

\* a text file: GetFileContent, excerpts, append
ResultText ==
    /\ mpc = "results"
    /\ LET f == matchingFiles[ri]
       IN  /\ ~IsBinaryFormat(ext[f])
           /\ \E io \in IoResults :
                 IF io = "ioerr" THEN Skip(f, "result-io-error") ELSE Keep(f)
    /\ NextResult
    /\ UNCHANGED <<enq, jobs, jobsClosed, pc, cur, pf, holdsPdf, matchingFiles,
                   processed, xvars, gvars, crashed, fixed>>

\* a binary file: GetFileContent, then ExecuteWithTimeout spawns fn; cm is
\* created but no slot of it is acquired
ResultSpawn ==
    /\ mpc = "results"
    /\ LET f == matchingFiles[ri]
       IN  /\ IsBinaryFormat(ext[f])
           /\ \E io \in IoResults :
                 IF io = "ioerr"
                 THEN Skip(f, "result-io-error") /\ gor' = gor /\ NextResult
                 ELSE /\ gor' = [gor EXCEPT ![Main] = "running"]
                      /\ mpc' = "rwait"
                      /\ lastDrop' = NoDrop
                      /\ UNCHANGED <<ri, results, ext>>
    /\ UNCHANGED <<enq, jobs, jobsClosed, pc, cur, pf, holdsPdf, matchingFiles,
                   processed, holds, orphanHeavy, panicRet, gvars, crashed, fixed>>

\* fn returns, select takes <-done: the nil returned overwrites the err fn
\* assigned, so the result is appended whether or not the extractor failed
ResultDone ==
    /\ mpc = "rwait"
    /\ gor[Main] = "running"
    /\ gor' = [gor EXCEPT ![Main] = "none"]
    /\ Keep(matchingFiles[ri])
    /\ NextResult
    /\ UNCHANGED <<enq, jobs, jobsClosed, pc, cur, pf, holdsPdf, matchingFiles,
                   processed, holds, orphanHeavy, panicRet, gvars, crashed, fixed>>

\* select takes <-time.After(timeout): the path is skipped.  fn and the
\* loop both write err without synchronisation: when fn returns without
\* error right after the timeout, its nil can replace the timeout error
\* before the loop tests it, and the result is appended after all
ResultTimeout ==
    /\ mpc = "rwait"
    /\ gor[Main] = "running" => orphanHeavy < MaxOrphans
    /\ gor' = [gor EXCEPT ![Main] = "none"]
    /\ panicRet' = IF gor[Main] = "panicked" THEN panicRet \cup {"timeout"} ELSE panicRet
    /\ \/ /\ Skip(matchingFiles[ri], "result-timeout")
          /\ orphanHeavy' = IF gor[Main] = "running" THEN orphanHeavy + 1
                            ELSE orphanHeavy
       \/ /\ gor[Main] = "running"
          /\ Keep(matchingFiles[ri])
          /\ orphanHeavy' = orphanHeavy
    /\ NextResult
    /\ UNCHANGED <<enq, jobs, jobsClosed, pc, cur, pf, holdsPdf, matchingFiles,
                   processed, holds, gvars, crashed, fixed>>

Next ==
    \/ Enqueue
    \/ CloseJobs
    \/ \E w \in Workers : Receive(w)
    \/ \E w \in Workers : WorkerExit(w)
    \/ \E w \in Workers : Start(w)
    \/ \E w \in Workers : PrefilterPanic(w)
    \/ \E w \in Workers : PdfGovernorLoad(w)
    \/ \E w \in Workers : PdfGovernorAdd(w)
    \/ \E w \in Workers : PdfAcquire(w)
    \/ \E w \in Workers : PdfTokenTimeout(w)
    \/ \E w \in Workers : PdfGateRecv(w)
    \/ \E w \in Workers : PdfWallTimeout(w)
    \/ PdfOrphanEnd
    \/ \E w \in Workers : PdfScan(w)
    \/ \E w \in Workers : Acquire(w)
    \/ \E t \in Threads : FnPanic(t)
    \/ \E w \in Workers : WaitDone(w)
    \/ \E w \in Workers : WaitTimeout(w)
    \/ OrphanEnd
    \/ WaitWorkers
    \/ ResultText
    \/ ResultSpawn
    \/ ResultDone
    \/ ResultTimeout

Spec == Init /\ [][Next]_vars

\* the same program under a fair scheduler: a step that stays possible is
\* taken at last (goroutines are scheduled, timers fire, channels deliver)
SpecLive == Spec /\ WF_vars(Next)

(***************************************************************************)
(* One prefilter call on drawn inputs.                                     *)
(***************************************************************************)
InitStream ==
    /\ sContent \in Contents
    /\ sWords \in WordLists
    /\ sCap \in 1..(MaxLen + 1)
    /\ sFault \in Faults
    /\ sRes = NoRes
    /\ nWords = 1
    /\ wordExcl = FALSE
    /\ extExcl = {}
    /\ pdfBudget = 0
    /\ PipelineInit
    /\ DiscoveryIdle

CallWithCap ==
    /\ sRes = NoRes
    /\ sRes' = [fn |-> "WithCap",
                out |-> StreamContainsAllWordsDecidedWithCap(sContent, sWords, sCap, sFault)]
    /\ UNCHANGED <<sContent, sWords, sCap, sFault>>
    /\ UNCHANGED <<cfgvars, dvars, pvars>>

CallDecided ==
    /\ sRes = NoRes
    /\ sRes' = [fn |-> "Decided",
                out |-> StreamContainsAllWordsDecided(sContent, sWords, sFault)]
    /\ UNCHANGED <<sContent, sWords, sCap, sFault>>
    /\ UNCHANGED <<cfgvars, dvars, pvars>>

CallScan ==
    /\ sRes = NoRes
    /\ sRes' = [fn |-> "Scan", out |-> ScanWorker(sContent, sWords[1], sFault)]
    /\ UNCHANGED <<sContent, sWords, sCap, sFault>>
    /\ UNCHANGED <<cfgvars, dvars, pvars>>

NextStream ==
    \/ CallWithCap
    \/ CallDecided
    \/ CallScan

SpecStream == InitStream /\ [][NextStream]_vars

(***************************************************************************)
(* The discovery stage: Execute's first progress delivery, then            *)
(* FindFilesWithFirstWordProgress: the WalkDir callback feeds scan workers *)
(* through the paths channel and appends heavy files to matches itself.    *)
(***************************************************************************)
NumWalked == 3
pathsCap == 2

\* the extensions the walk meets; ".bin" is not on the allow-list
WalkExts == Exts \cup {".bin"}

heavy == {".pdf", ".docx"}

DiscoveryInit ==
    /\ dpc = "start"
    /\ wIdx = 0
    /\ dProcessed = 0
    /\ paths = <<>>
    /\ pathsClosed = FALSE
    /\ spc = [k \in ScanWorkerIds |-> "idle"]
    /\ matches = <<>>
    /\ quitting = FALSE
    /\ delivered = -1
    /\ touched = "none"

\* Execute: OnProgress("discovery", 0, fileCount, ""); then
\* FindFilesWithFirstWordProgress: onProgress(0, 0, "") and the workers start
ExecuteStart ==
    /\ dpc = "start"
    /\ dpc' = "walk"
    /\ delivered' = 0
    /\ touched' = "none"
    /\ UNCHANGED <<wIdx, dProcessed, paths, pathsClosed, spc, matches>>
    /\ UNCHANGED <<svars, cfgvars, pvars, quitting>>

\* the WalkDir callback on one file: allow-list, processed++ and progress,
\* then a heavy file is appended at once (a PDF) or after the capped
\* prefilter (other heavy types), and a text file is sent to the workers
WalkFile ==
    /\ dpc = "walk"
    /\ wIdx < NumWalked
    /\ wIdx' = wIdx + 1
    /\ \E e \in WalkExts :
          IF e \notin Exts
          THEN /\ touched' = "none"
               /\ UNCHANGED <<dProcessed, delivered, paths, matches>>
          ELSE /\ dProcessed' = dProcessed + 1
               /\ delivered' = dProcessed + 1
               /\ IF e = ".pdf"
                  THEN /\ matches' = Append(matches, wIdx + 1)
                       /\ touched' = "none"
                       /\ paths' = paths
                  ELSE IF e \in heavy
                  THEN /\ \E o \in PfOutcomes :
                            matches' = IF o = "absent" THEN matches
                                       ELSE Append(matches, wIdx + 1)
                       /\ touched' = e
                       /\ paths' = paths
                  ELSE /\ Len(paths) < pathsCap
                       /\ paths' = Append(paths, [id |-> wIdx + 1, ext |-> e])
                       /\ touched' = "none"
                       /\ matches' = matches
    /\ UNCHANGED <<dpc, pathsClosed, spc>>
    /\ UNCHANGED <<svars, cfgvars, pvars, quitting>>

\* WalkDir has returned: close(paths), wg.Wait()
ClosePaths ==
    /\ dpc = "walk"
    /\ wIdx = NumWalked
    /\ pathsClosed' = TRUE
    /\ dpc' = "wait"
    /\ touched' = "none"
    /\ UNCHANGED <<wIdx, dProcessed, paths, spc, matches, delivered>>
    /\ UNCHANGED <<svars, cfgvars, pvars, quitting>>

\* a scan worker: for p := range paths; open, scan (ScanWorker), append
ScanPath(k) ==
    /\ spc[k] = "idle"
    /\ \A j \in ScanWorkerIds : j < k => spc[j] # "idle"
    /\ paths # <<>>
    /\ paths' = Tail(paths)
    /\ \E candidate \in BOOLEAN :
          matches' = IF candidate THEN Append(matches, Head(paths).id) ELSE matches
    /\ touched' = Head(paths).ext
    /\ UNCHANGED <<dpc, wIdx, dProcessed, pathsClosed, spc, delivered>>
    /\ UNCHANGED <<svars, cfgvars, pvars, quitting>>

\* range over the closed, drained channel ends: wg.Done
ScanWorkerExit(k) ==
    /\ spc[k] = "idle"
    /\ \A j \in ScanWorkerIds : j < k => spc[j] # "idle"
    /\ paths = <<>>
    /\ pathsClosed
    /\ spc' = [spc EXCEPT ![k] = "exited"]
    /\ touched' = "none"
    /\ UNCHANGED <<dpc, wIdx, dProcessed, paths, pathsClosed, matches, delivered>>
    /\ UNCHANGED <<svars, cfgvars, pvars, quitting>>

\* wg.Wait returns; with no match FindFilesWithFirstWordProgress returns nil
\* and Execute delivers OnProgress("discovery", 0, fileCount, "") and returns
DiscoverReturn ==
    /\ dpc = "wait"
    /\ \A k \in ScanWorkerIds : spc[k] = "exited"
    /\ IF matches = <<>>
       THEN dpc' = "done" /\ delivered' = 0
       ELSE dpc' = "filter" /\ delivered' = delivered
    /\ touched' = "none"
    /\ UNCHANGED <<wIdx, dProcessed, paths, pathsClosed, spc, matches>>
    /\ UNCHANGED <<svars, cfgvars, pvars, quitting>>

\* Update, tea.KeyMsg while m.loading: "q" or "ctrl+c" sets m.quitting and
\* returns tea.Quit.  Nothing of the engine reads it: Execute takes no
\* context and no cancel channel
QuitKey ==
    /\ dpc \in {"start", "walk", "wait"}
    /\ ~quitting
    /\ quitting' = TRUE
    /\ touched' = "none"
    /\ UNCHANGED <<dpc, wIdx, dProcessed, paths, pathsClosed, spc, matches, delivered>>
    /\ UNCHANGED <<svars, cfgvars, pvars>>

\* tea.Quit is handled: p.Run returns, main returns, the process ends with
\* the search goroutines wherever they are; no searchResultMsg is delivered
ProgramExit ==
    /\ quitting
    /\ dpc \in {"start", "walk", "wait"}
    /\ dpc' = "exit"
    /\ spc' = [k \in ScanWorkerIds |-> "exited"]
    /\ touched' = "none"
    /\ UNCHANGED <<wIdx, dProcessed, paths, pathsClosed, matches, quitting, delivered>>
    /\ UNCHANGED <<svars, cfgvars, pvars>>

InitDiscovery ==
    /\ StreamIdle
    /\ nWords \in {1, 2}
    /\ wordExcl = FALSE
    /\ extExcl \in {{}, {".txt"}}
    /\ pdfBudget = 0
    /\ PipelineInit
    /\ DiscoveryInit

NextDiscovery ==
    \/ ExecuteStart
    \/ WalkFile
    \/ ClosePaths
    \/ \E k \in ScanWorkerIds : ScanPath(k)
    \/ \E k \in ScanWorkerIds : ScanWorkerExit(k)
    \/ DiscoverReturn
    \/ QuitKey
    \/ ProgramExit

SpecDiscovery == InitDiscovery /\ [][NextDiscovery]_vars

(***************************************************************************)
(* The word-exclude check applied to one file, as handleOne applies it.    *)
(***************************************************************************)
InitExclude ==
    /\ sContent \in ExclContents
    /\ sWords \in ExclWordLists
    /\ sCap = 0
    /\ sFault \in {"none", "open", "read1"}
    /\ sRes = NoRes
    /\ nWords = 1
    /\ wordExcl = TRUE
    /\ extExcl = {}
    /\ pdfBudget = 0
    /\ PipelineInit
    /\ DiscoveryIdle

\* a text file: CheckFileContainsExcludeWords(filePath, wordExcludes)
CallExcludeFile ==
    /\ sRes = NoRes
    /\ sRes' = [fn |-> "ExcludeFile",
                out |-> CheckFileContainsExcludeWords(sContent, sWords, sFault)]
    /\ UNCHANGED <<sContent, sWords, sCap, sFault>>
    /\ UNCHANGED <<cfgvars, dvars, pvars>>

\* a binary file whose extraction returned sContent:
\* CheckTextContainsExcludeWords(CleanContent(out), wordExcludes)
CallExcludeText ==
    /\ sRes = NoRes
    /\ sRes' = [fn |-> "ExcludeText",
                out |-> [has |-> CheckTextContainsExcludeWords(CleanContent(sContent), sWords),
                         err |-> FALSE]]
    /\ UNCHANGED <<sContent, sWords, sCap, sFault>>
    /\ UNCHANGED <<cfgvars, dvars, pvars>>

NextExclude ==
    \/ CallExcludeFile
    \/ CallExcludeText

SpecExclude == InitExclude /\ [][NextExclude]_vars

(***************************************************************************)
(* CheckTextContainsAllWords called on one text, term list and distance.   *)
(***************************************************************************)
InitProximity ==
    /\ sContent \in ProxTexts
    /\ sWords \in ProxWordLists
    /\ sCap \in 0..MaxDistance
    /\ sFault = "none"
    /\ sRes = NoRes
    /\ nWords = 1
    /\ wordExcl = FALSE
    /\ extExcl = {}
    /\ pdfBudget = 0
    /\ PipelineInit
    /\ DiscoveryIdle

CallProximity ==
    /\ sRes = NoRes
    /\ \E desc \in BOOLEAN :
          sRes' = [fn |-> "Proximity",
                   out |-> [ok |-> CheckTextContainsAllWords(sContent, sWords, sCap, desc)]]
    /\ UNCHANGED <<sContent, sWords, sCap, sFault>>
    /\ UNCHANGED <<cfgvars, dvars, pvars>>

\* the stage-1 scanner's primitive on the same text and first term
CallWholeWord ==
    /\ sRes = NoRes
    /\ sRes' = [fn |-> "WholeWord",
                out |-> [ok |-> asciiIndexWholeWordCI(sContent, sWords[1])]]
    /\ UNCHANGED <<sContent, sWords, sCap, sFault>>
    /\ UNCHANGED <<cfgvars, dvars, pvars>>

\* ExtractAndBuildResults: the content is cleaned, then excerpted
CallExcerpts ==
    /\ sRes = NoRes
    /\ \E desc \in BOOLEAN :
          sRes' = [fn |-> "Excerpts",
                   out |-> ExtractMeaningfulExcerpts(CleanContent(sContent), sWords, sCap, desc)]
    /\ UNCHANGED <<sContent, sWords, sCap, sFault>>
    /\ UNCHANGED <<cfgvars, dvars, pvars>>

NextProximity ==
    \/ CallProximity
    \/ CallWholeWord
    \/ CallExcerpts

SpecProximity == InitProximity /\ [][NextProximity]_vars

(***************************************************************************)
(* parseArguments, one step per argument.  sContent holds the argument     *)
(* list and sRes.out the parser's locals and its result so far.  "w" is a  *)
(* plain word, "3" a number; --heavy-concurrency, --file-timeout-binary    *)
(* and --workers are handled exactly as --distance is.                     *)
(***************************************************************************)
ArgTokens == {"w", "3", "--not", "--code", "--distance", "-h"}

MaxArgs == 4

ArgLists == UNION {[1..k -> ArgTokens] : k \in 0..MaxArgs}

InitArgs ==
    /\ sContent \in ArgLists
    /\ sWords = <<>>
    /\ sCap = 0
    /\ sFault = "none"
    /\ sRes = NoRes
    /\ nWords = 1
    /\ wordExcl = FALSE
    /\ extExcl = {}
    /\ pdfBudget = 0
    /\ PipelineInit
    /\ DiscoveryIdle

\* the end of one round of "for _, a := range args"
Advance(o) ==
    [o EXCEPT !.i = @ + 1,
              !.pc = IF o.i + 1 > Len(sContent) THEN "done" ELSE "loop"]

\* result := &Arguments{...} and the parser's flags, before the first round
ParseStart ==
    /\ sRes = NoRes
    /\ sRes' = [fn |-> "Parse",
                out |-> [i |-> 1,
                         pc |-> IF Len(sContent) = 0 THEN "done" ELSE "loop",
                         SearchWords |-> <<>>, ExcludeWords |-> <<>>,
                         IncludeCode |-> FALSE, Distance |-> 0,
                         parsingExcludes |-> FALSE, expectDistance |-> FALSE]]
    /\ UNCHANGED <<sContent, sWords, sCap, sFault>>
    /\ UNCHANGED <<cfgvars, dvars, pvars>>

\* if expectDistance: the argument is taken as the flag's value
ParseValue ==
    /\ sRes.fn = "Parse"
    /\ sRes.out.pc = "loop"
    /\ sRes.out.expectDistance
    /\ LET o == sRes.out
           a == sContent[o.i]
       IN  sRes' = [sRes EXCEPT !.out =
                       Advance([o EXCEPT !.Distance = IF a = "3" THEN 3 ELSE @,
                                         !.expectDistance = FALSE])]
    /\ UNCHANGED <<sContent, sWords, sCap, sFault>>
    /\ UNCHANGED <<cfgvars, dvars, pvars>>

\* the cases "--code", "--not" and "--distance" of the switch
ParseFlag ==
    /\ sRes.fn = "Parse"
    /\ sRes.out.pc = "loop"
    /\ ~sRes.out.expectDistance
    /\ LET o == sRes.out
           a == sContent[o.i]
       IN  /\ a \in {"--code", "--not", "--distance"}
           /\ sRes' = [sRes EXCEPT !.out =
                          Advance(IF a = "--code" THEN [o EXCEPT !.IncludeCode = TRUE]
                                  ELSE IF a = "--not" THEN [o EXCEPT !.parsingExcludes = TRUE]
                                  ELSE [o EXCEPT !.expectDistance = TRUE])]
    /\ UNCHANGED <<sContent, sWords, sCap, sFault>>
    /\ UNCHANGED <<cfgvars, dvars, pvars>>

\* the case "--help", "-h": showUsage and os.Exit(0)
ParseHelp ==
    /\ sRes.fn = "Parse"
    /\ sRes.out.pc = "loop"
    /\ ~sRes.out.expectDistance
    /\ sContent[sRes.out.i] = "-h"
    /\ sRes' = [sRes EXCEPT !.out.pc = "exit"]
    /\ UNCHANGED <<sContent, sWords, sCap, sFault>>
    /\ UNCHANGED <<cfgvars, dvars, pvars>>

\* the default case: the argument is appended to one of the two lists
ParseWord ==
    /\ sRes.fn = "Parse"
    /\ sRes.out.pc = "loop"
    /\ ~sRes.out.expectDistance
    /\ LET o == sRes.out
           a == sContent[o.i]
       IN  /\ a \notin {"--code", "--not", "--distance", "-h"}
           /\ sRes' = [sRes EXCEPT !.out =
                          Advance(IF o.parsingExcludes
                                  THEN [o EXCEPT !.ExcludeWords = Append(@, a)]
                                  ELSE [o EXCEPT !.SearchWords = Append(@, a)])]
    /\ UNCHANGED <<sContent, sWords, sCap, sFault>>
    /\ UNCHANGED <<cfgvars, dvars, pvars>>

NextArgs ==
    \/ ParseStart
    \/ ParseValue
    \/ ParseFlag
    \/ ParseHelp
    \/ ParseWord

SpecArgs == InitArgs /\ [][NextArgs]_vars

(***************************************************************************)
(* One call of ConcurrencyManager.ExecuteWithTimeout with a clock.  sCap   *)
(* is the timeout in ticks; sRes.out holds the clock (now), the goroutine  *)
(* running fn (fnState, and fnEnd, the time fn ended), the done channel,   *)
(* and the call's return value (ret, and retAt, the time it returned).     *)
(* time.After(timeout) is ready from now = sCap on.  Time does not pass    *)
(* while the select has a ready case.                                      *)
(***************************************************************************)
MaxNow == 5

\* the call has made the done channel, started the goroutine and reached
\* the select
InitExec ==
    /\ sContent = <<>>
    /\ sWords = <<>>
    /\ sCap \in 1..(MaxNow - 1)
    /\ sFault = "none"
    /\ sRes = [fn |-> "Exec",
               out |-> [now |-> 0, fnState |-> "running", fnEnd |-> -1,
                        done |-> FALSE, ret |-> "pending", retAt |-> -1]]
    /\ nWords = 1
    /\ wordExcl = FALSE
    /\ extExcl = {}
    /\ pdfBudget = 0
    /\ PipelineInit
    /\ DiscoveryIdle

Tick ==
    /\ sRes.fn = "Exec"
    /\ sRes.out.now < MaxNow
    /\ sRes.out.ret = "pending" => (~sRes.out.done /\ sRes.out.now < sCap)
    /\ sRes' = [sRes EXCEPT !.out.now = @ + 1]
    /\ UNCHANGED <<sContent, sWords, sCap, sFault>>
    /\ UNCHANGED <<cfgvars, dvars, pvars>>

\* fn panics, the deferred recover swallows it and close(done) is skipped;
\* here done is closed all the same
FnPanicsAndCloses ==
    /\ sRes.fn = "Exec"
    /\ sRes.out.fnState = "running"
    /\ sRes' = [sRes EXCEPT !.out.fnState = "panicked", !.out.fnEnd = sRes.out.now,
                            !.out.done = TRUE]
    /\ UNCHANGED <<sContent, sWords, sCap, sFault>>
    /\ UNCHANGED <<cfgvars, dvars, pvars>>

\* fn() returns and the goroutine closes done
FnReturns ==
    /\ sRes.fn = "Exec"
    /\ sRes.out.fnState = "running"
    /\ sRes' = [sRes EXCEPT !.out.fnState = "returned", !.out.fnEnd = sRes.out.now,
                            !.out.done = TRUE]
    /\ UNCHANGED <<sContent, sWords, sCap, sFault>>
    /\ UNCHANGED <<cfgvars, dvars, pvars>>

\* fn() panics: the deferred recover swallows the panic, close(done) is
\* not reached
FnPanics ==
    /\ sRes.fn = "Exec"
    /\ sRes.out.fnState = "running"
    /\ sRes' = [sRes EXCEPT !.out.fnState = "panicked", !.out.fnEnd = sRes.out.now]
    /\ UNCHANGED <<sContent, sWords, sCap, sFault>>
    /\ UNCHANGED <<cfgvars, dvars, pvars>>

\* case <-done: return nil
SelectDone ==
    /\ sRes.fn = "Exec"
    /\ sRes.out.ret = "pending"
    /\ sRes.out.done
    /\ sRes' = [sRes EXCEPT !.out.ret = "nil", !.out.retAt = sRes.out.now]
    /\ UNCHANGED <<sContent, sWords, sCap, sFault>>
    /\ UNCHANGED <<cfgvars, dvars, pvars>>

\* case <-time.After(timeout): return the timeout error
SelectTimeout ==
    /\ sRes.fn = "Exec"
    /\ sRes.out.ret = "pending"
    /\ sRes.out.now >= sCap
    /\ sRes' = [sRes EXCEPT !.out.ret = "timeout", !.out.retAt = sRes.out.now]
    /\ UNCHANGED <<sContent, sWords, sCap, sFault>>
    /\ UNCHANGED <<cfgvars, dvars, pvars>>

NextExec ==
    \/ Tick
    \/ FnReturns
    \/ FnPanics
    \/ SelectDone
    \/ SelectTimeout

SpecExec == InitExec /\ [][NextExec]_vars

\* ---- WordMatcher.findInLargeFile: the chunked scan of a file above
\* maxFileSize (src/search/matcher.go) ----
\* 50 MiB, 5 MiB and 1 KiB in the source, scaled with their order kept:
\* largeOverlap < largeChunkSize < maxFileSize
maxFileSize == 8
largeChunkSize == 4
largeOverlap == 1
LargeMax == 10
\* the two counters that grow with every chunk read enter no condition of
\* the loop: the model counts the reads modulo MaxReads and holds the line
\* offset at MaxReads
MaxReads == 6

\* a file of bytes and newlines ("n"), larger than maxFileSize
LargeFiles ==
    UNION {[1..n -> {"a", "n"}] : n \in (maxFileSize + 1)..LargeMax}

InitLarge ==
    /\ sContent \in LargeFiles
    /\ sWords = <<>>
    /\ sCap = 0
    /\ sFault = "none"
    /\ sRes = [fn |-> "Large",
               out |-> [pc |-> "loop", offset |-> 0, lineOffset |-> 1,
                        reads |-> 0, err |-> FALSE]]
    /\ nWords = 1
    /\ wordExcl = FALSE
    /\ extExcl = {}
    /\ pdfBudget = 0
    /\ PipelineInit
    /\ DiscoveryIdle

\* one pass of `for offset < fileSize`: the test, the ReadAt of readSize
\* bytes, which either fails with an error other than io.EOF (return) or
\* fills the buffer, the line count, and offset += readSize - overlap with
\* the break on a negative offset
findInLargeFile ==
    /\ sRes.fn = "Large"
    /\ sRes.out.pc = "loop"
    /\ LET o == sRes.out
           fileSize == Len(sContent)
           readSize == Min(largeChunkSize, fileSize - o.offset)
           buffer == SubSeq(sContent, o.offset + 1, o.offset + readSize)
           newlines == Cardinality({i \in 1..Len(buffer) : buffer[i] = "n"})
           next == o.offset + readSize - largeOverlap
       IN IF o.offset < fileSize
          THEN \E failed \in BOOLEAN :
                  sRes' = [sRes EXCEPT !.out =
                      IF failed
                      THEN [o EXCEPT !.pc = "returned", !.err = TRUE,
                                     !.reads = (o.reads + 1) % MaxReads]
                      ELSE [o EXCEPT !.pc = IF next < 0 THEN "returned" ELSE "loop",
                                     !.offset = next,
                                     !.lineOffset = Min(o.lineOffset + newlines, MaxReads),
                                     !.reads = (o.reads + 1) % MaxReads]]
          ELSE sRes' = [sRes EXCEPT !.out.pc = "returned"]
    /\ UNCHANGED <<sContent, sWords, sCap, sFault>>
    /\ UNCHANGED <<cfgvars, dvars, pvars>>

NextLarge == findInLargeFile

\* the scan runs on its caller's goroutine, which the scheduler keeps running
SpecLarge == InitLarge /\ [][NextLarge]_vars /\ WF_vars(NextLarge)

\* ---- the TUI's progress listener (src/app/tui.go, runSearch): the
\* se.OnProgress closure, called by the filter workers, and the progressTick
\* handler of the UI loop, which shares progressMu with it.  Nothing in the
\* TUI receives from progressChan except the listener itself ----
\* make(chan progressMsg, 64), scaled
progressCap == 2

InitProgress ==
    /\ sContent = <<>>
    /\ sWords = <<>>
    /\ sCap = progressCap
    /\ sFault = "none"
    /\ sRes = [fn |-> "Progress",
               out |-> [lpc |-> [t \in Threads |-> "idle"],
                        steps |-> [t \in Threads |-> 0],
                        mu |-> 0, chan |-> <<>>, latest |-> 0]]
    /\ nWords = 1
    /\ wordExcl = FALSE
    /\ extExcl = {}
    /\ pdfBudget = 0
    /\ PipelineInit
    /\ DiscoveryIdle

\* (mu and latest hold a thread, 0 for none; steps counts the steps of the
\* thread's current call)
\* a worker calls se.OnProgress, or the UI loop gets a progressTick
ProgressCall(t) ==
    /\ sRes.fn = "Progress"
    /\ sRes.out.lpc[t] = "idle"
    /\ sRes' = [sRes EXCEPT !.out.lpc[t] = "lock", !.out.steps[t] = 0]
    /\ UNCHANGED <<sContent, sWords, sCap, sFault>>
    /\ UNCHANGED <<cfgvars, dvars, pvars>>

\* progressMu.Lock()
MuLock(t) ==
    /\ sRes.fn = "Progress"
    /\ sRes.out.lpc[t] = "lock"
    /\ sRes.out.mu = 0
    /\ sRes' = [sRes EXCEPT !.out = [@ EXCEPT !.lpc[t] = "unlock", !.steps[t] = @ + 1, !.mu = t]]
    /\ UNCHANGED <<sContent, sWords, sCap, sFault>>
    /\ UNCHANGED <<cfgvars, dvars, pvars>>

\* the critical section and progressMu.Unlock(): a worker stores its message
\* in latestProgress and goes on to the channel, the UI loop reads the
\* snapshot and returns
MuUnlock(t) ==
    /\ sRes.fn = "Progress"
    /\ sRes.out.lpc[t] = "unlock"
    /\ sRes.out.mu = t
    /\ sRes' = [sRes EXCEPT !.out =
           IF t = Main
           THEN [@ EXCEPT !.lpc[t] = "idle", !.steps[t] = @ + 1, !.mu = 0]
           ELSE [@ EXCEPT !.lpc[t] = "send", !.steps[t] = @ + 1, !.mu = 0, !.latest = t]]
    /\ UNCHANGED <<sContent, sWords, sCap, sFault>>
    /\ UNCHANGED <<cfgvars, dvars, pvars>>

\* a plain `progressChan <- msg` for the first select: the worker waits while
\* the channel is full
TrySendBlocking(w) ==
    /\ sRes.fn = "Progress"
    /\ sRes.out.lpc[w] = "send"
    /\ Len(sRes.out.chan) < sCap
    /\ sRes' = [sRes EXCEPT !.out =
           [@ EXCEPT !.lpc[w] = "idle", !.steps[w] = @ + 1, !.chan = Append(@, w)]]
    /\ UNCHANGED <<sContent, sWords, sCap, sFault>>
    /\ UNCHANGED <<cfgvars, dvars, pvars>>

\* select { case progressChan <- msg: default: ... }
TrySend(w) ==
    /\ sRes.fn = "Progress"
    /\ sRes.out.lpc[w] = "send"
    /\ sRes' = [sRes EXCEPT !.out =
           IF Len(@.chan) < sCap
           THEN [@ EXCEPT !.lpc[w] = "idle", !.steps[w] = @ + 1, !.chan = Append(@, w)]
           ELSE [@ EXCEPT !.lpc[w] = "drop", !.steps[w] = @ + 1]]
    /\ UNCHANGED <<sContent, sWords, sCap, sFault>>
    /\ UNCHANGED <<cfgvars, dvars, pvars>>

\* select { case <-progressChan: default: }
DropOldest(w) ==
    /\ sRes.fn = "Progress"
    /\ sRes.out.lpc[w] = "drop"
    /\ sRes' = [sRes EXCEPT !.out =
           IF Len(@.chan) > 0
           THEN [@ EXCEPT !.lpc[w] = "resend", !.steps[w] = @ + 1, !.chan = Tail(@)]
           ELSE [@ EXCEPT !.lpc[w] = "resend", !.steps[w] = @ + 1]]
    /\ UNCHANGED <<sContent, sWords, sCap, sFault>>
    /\ UNCHANGED <<cfgvars, dvars, pvars>>

\* select { case progressChan <- msg: default: } and the return
Resend(w) ==
    /\ sRes.fn = "Progress"
    /\ sRes.out.lpc[w] = "resend"
    /\ sRes' = [sRes EXCEPT !.out =
           IF Len(@.chan) < sCap
           THEN [@ EXCEPT !.lpc[w] = "idle", !.steps[w] = @ + 1, !.chan = Append(@, w)]
           ELSE [@ EXCEPT !.lpc[w] = "idle", !.steps[w] = @ + 1]]
    /\ UNCHANGED <<sContent, sWords, sCap, sFault>>
    /\ UNCHANGED <<cfgvars, dvars, pvars>>

NextProgress ==
    \/ \E t \in Threads : ProgressCall(t)
    \/ \E t \in Threads : MuLock(t)
    \/ \E t \in Threads : MuUnlock(t)
    \/ \E w \in Workers : TrySend(w)
    \/ \E w \in Workers : DropOldest(w)
    \/ \E w \in Workers : Resend(w)

SpecProgress == InitProgress /\ [][NextProgress]_vars

(***************************************************************************)
(* Properties.                                                             *)
(***************************************************************************)

\* C1: a file whose prefilter returned (found=true, decided=true) is never
\* dropped by the filter stage because an extractor call timed out, hung,
\* panicked or returned an error: no step drops a file with a positive
\* prefilter outcome for the reason "timeout" or "extract-error".
C1_PositiveNotLostToTimeout ==
    lastDrop.pf = "found" => lastDrop.why \notin {"timeout", "extract-error"}

\* C2: an ExecuteWithTimeout call whose fn panicked returns to its call site
\* what it returns for an fn that produced empty text, nil: no error and no
\* timeout is reported.
C2_PanicReturnsNil ==
    \A r \in panicRet : r = "nil"

\* C3: a panic raised inside a prefilter never terminates the filter worker
\* (the process keeps running) and never ends in a decided-absent outcome
\* (no PDF is dropped as absent by a scan in which a page read panicked).
C3_PrefilterPanicIsUndecided ==
    /\ ~crashed
    /\ lastDrop.why # "pdf-absent-page-panic"

\* C4: in the PDF gate, expiry of the slot-acquisition timer or of the wall
\* timer never rejects the PDF: no file is dropped for the reason
\* "pdf-token-timeout" or "pdf-wall-timeout".
C4_PdfTimeoutNeverRejects ==
    lastDrop.why \notin {"pdf-token-timeout", "pdf-wall-timeout"}

\* C5: at every instant the extractor calls still executing, those whose
\* waiter has timed out included, number at most heavy_concurrency.
C5_HeavyBound ==
    HeavyRunning <= HeavyConcurrency

\* C6: every extractor call that is executing on behalf of a waiting thread,
\* in the filter stage or in the result stage, was made by a thread that
\* holds a slot of the heavy semaphore.
C6_ExtractorUnderSlot ==
    \A t \in Threads : gor[t] = "running" => (t \in Workers /\ holds[t])

\* C7: at every instant at most 2 PDF scans or gate extractions are
\* executing, those whose waiter gave up on the wall timer included.
C7_PdfBound ==
    PdfRunning <= PdfSlots

\* C8: a streaming prefilter returns (found=false, decided=true) only after
\* it has read the whole file without finding all terms: not after a failed
\* open or read, and not on stopping at a byte limit short of the end.
C8_AbsentOnlyAtEOF ==
    (sRes.fn \in {"WithCap", "Decided"} /\ ~sRes.out.found /\ sRes.out.decided)
        => /\ sRes.out.why \notin {"openerr", "ioerr"}
           /\ sRes.out.total = Len(sContent)

\* C9: the filter stage drops a file on the strength of a prefilter only
\* when the prefilter returned (found=false, decided=true); an undecided
\* file is never dropped for the reason "prefilter".
C9_OnlyDecidedAbsentSkips ==
    lastDrop.why = "prefilter" => lastDrop.pf = "absent"

\* C10: for a fixed file and term list (no I/O fault), a decided outcome of
\* StreamContainsAllWordsDecidedWithCap stays the same under every larger
\* cap: found never flips and decided never reverts.
C10_CapMonotone ==
    (sRes.fn = "WithCap" /\ sFault = "none" /\ sRes.out.decided)
        => \A c2 \in (sCap + 1)..(MaxLen + 1) :
              LET r2 == StreamContainsAllWordsDecidedWithCap(sContent, sWords, c2, sFault)
              IN  r2.decided /\ r2.found = sRes.out.found

\* C11: a text file handed to the stage-1 scan, every read of it succeeding,
\* becomes a candidate unless the scan read the whole file within its budget
\* and the first term has no whole-word occurrence in it.
C11_ScanKeepsUnlessAbsent ==
    (sRes.fn = "Scan" /\ sFault = "none" /\ ~sRes.out.candidate)
        => /\ sRes.out.total = Len(sContent)
           /\ ~ReMatch(sContent, sWords[1])

\* C12: a text file that every read succeeds on and in which the single query
\* term occurs as a whole word, anywhere, passes the streaming presence test
\* that CheckFileContainsAllWords puts before the proximity check (and so
\* can reach the results).
C12_PresentTermIsFound ==
    (sRes.fn = "Decided" /\ sFault = "none" /\ Len(sWords) = 1
        /\ ReMatch(sContent, sWords[1]))
        => sRes.out.found

\* C13: no file is accepted without the proximity predicate having evaluated
\* to true on its text: a PDF of a single-term query whose presence scan came
\* back undecided (so that no predicate was evaluated on any text of it) is
\* not appended to the matching files by the step that ends its word-exclude
\* extraction.
C13_AcceptedOnlyAfterPredicate ==
    [][\A w \in Workers :
          (nWords = 1 /\ pc[w] = "wait_x" /\ ext[cur[w]] = ".pdf"
              /\ pf[w] = "undecided")
              => ~(pc'[w] = "idle" /\ Len(matchingFiles') > Len(matchingFiles))]_vars

NoDuplicates(s) == \A i, j \in 1..Len(s) : i # j => s[i] # s[j]

InHand == {w \in Workers : cur[w] # 0}

\* C15: no two filter workers process the same candidate path, and each
\* enqueued candidate is received by exactly one worker: the candidates sent
\* so far are, each once, in the channel, in the hands of one worker, or
\* counted as processed.
C15_OneWorkerPerCandidate ==
    /\ \A v, w \in Workers : (v # w /\ cur[v] # 0) => cur[v] # cur[w]
    /\ NoDuplicates(jobs)
    /\ \A w \in InHand : \A i \in 1..Len(jobs) : jobs[i] # cur[w]
    /\ enq = Len(jobs) + Cardinality(InHand) + processed

\* C15 happens: two workers are handling candidates at once while the third
\* candidate has already been processed
C15_Witness ==
    /\ Cardinality(InHand) >= 2
    /\ processed >= 1

\* C16: within the discovery stage the processed counts delivered to the
\* progress listener never decrease in delivery order.
C16_ProgressNeverDecreases ==
    [][delivered' >= delivered]_vars

\* C17: extension excludes are applied before any content work: no step of
\* the discovery stage reads (opens, scans or prefilters) a file whose
\* extension is excluded.
C17_ExcludedNeverTouched ==
    touched \notin extExcl

\* C18: the word-exclude check sees the cleaned text: a text file whose
\* cleaned text (CleanContent of what GetFileContent reads, the text the
\* results are built from) contains a word-exclude token as a whole word is
\* reported by the check as containing it, so that it is kept out of the
\* results.
C18_ExcludeSeesCleanedText ==
    (sRes.fn = "ExcludeFile" /\ ~sRes.out.err
        /\ CheckTextContainsExcludeWords(
               CleanContent(GetFileContent(sContent, sFault).content), sWords))
        => sRes.out.has

\* C19: when a PDF budget is set and has been reached, a PDF that comes to
\* the governor is skipped: the step that takes it on from there adds exactly
\* one to pdf_skipped_budget, leaves pdf_processed alone, ends the handling of
\* the file and does not append it to the matching files (from which alone
\* the results are built).
C19_BudgetReachedSkips ==
    [][\A w \in Workers :
          (pc[w] = "pdf_gov" /\ pdfBudget > 0 /\ pdfProcessed >= pdfBudget
              /\ pc'[w] # "pdf_gov" /\ ~crashed')
              => /\ pdfSkippedBudget' = pdfSkippedBudget + 1
                 /\ pdfProcessed' = pdfProcessed
                 /\ pc'[w] = "idle"
                 /\ matchingFiles' = matchingFiles]_vars

\* C19 happens: a PDF has just been skipped for the budget
C19_Witness ==
    /\ pdfBudget > 0
    /\ lastDrop.why = "pdf-budget"
    /\ pdfSkippedBudget >= 1

\* C20: a file the filter stage classified as matching stays in the results
\* when its result-stage extraction times out or panics: the result loop
\* never skips a path for the reason "result-timeout".
C20_ResultFailureKeepsFile ==
    lastDrop.why # "result-timeout"

\* C21: once a cancel signal has been raised during a search, the walker and
\* the workers stop at their next suspension point: the walker visits no
\* further directory entry and no worker receives a further path from the
\* channel.
C21_CancelStopsAtSuspensionPoint ==
    [][quitting => (wIdx' = wIdx /\ Len(paths') >= Len(paths))]_vars

\* there are match positions, one per term, the latest at most distance after
\* the earliest; with distinct, no two terms share a position
OccurWithin(text, words, distance, distinct) ==
    \E f \in [1..Len(words) -> 1..Len(text)] :
        /\ \A k \in 1..Len(words) : f[k] \in Hits(text, words[k])
        /\ \A j, k \in 1..Len(words) : f[j] - f[k] <= distance
        /\ distinct => \A j, k \in 1..Len(words) : j # k => f[j] # f[k]

\* C22 as stated: for two or more terms, when CheckTextContainsAllWords
\* returns true there are strictly increasing positions, one per term, at
\* which the terms occur, the last at most D after the first.
C22_SoundStrict ==
    (sRes.fn = "Proximity" /\ Len(sWords) >= 2 /\ sRes.out.ok)
        => OccurWithin(sContent, sWords, sCap, TRUE)

\* C22 amended: for two or more terms, when CheckTextContainsAllWords returns
\* true there are positions p_0 <= ... <= p_{k-1}, one per term, at which the
\* terms occur, with p_{k-1} - p_0 <= D; two terms may share a position.
C22_SoundNonStrict ==
    (sRes.fn = "Proximity" /\ Len(sWords) >= 2 /\ sRes.out.ok)
        => OccurWithin(sContent, sWords, sCap, FALSE)

\* C22 happens: the predicate has returned true for three terms
C22_Witness ==
    /\ sRes.fn = "Proximity"
    /\ Len(sWords) = 3
    /\ sRes.out.ok

C24_PluralOneDirectional ==
    (sRes.fn \in {"Proximity", "WholeWord"} /\ Len(sWords) = 1)
        => LET w == sWords[1]
           IN  /\ sContent \in {w, w \o <<"s">>, w \o <<"e", "s">>} => sRes.out.ok
               /\ (w[Len(w)] = "s" /\ sContent = SubSeq(w, 1, Len(w) - 1))
                      => ~sRes.out.ok

\* C24 happens: the scanner has matched the term a against the text "aes"
C24_Witness ==
    /\ sRes.fn = "WholeWord"
    /\ sWords = << <<"a">> >>
    /\ sContent = <<"a", "e", "s">>
    /\ sRes.out.ok

\* C25: a streaming prefilter counts an occurrence only if it is a whole word
\* of the underlying text: when every read succeeds and the prefilter reports
\* found, every term has a whole-word occurrence in the file itself, chunk,
\* overlap and cap boundaries notwithstanding.
C25_FoundIsWholeWordInFile ==
    (sRes.fn \in {"WithCap", "Decided"} /\ sFault = "none" /\ sRes.out.found)
        => \A k \in 1..Len(sWords) : ReMatch(sContent, sWords[k])

\* C26: every result whose cleaned text holds a whole-word, plural-tolerant
\* occurrence of every query term has a non-empty excerpt list
C26_ExcerptsNonEmpty ==
    (/\ sRes.fn = "Excerpts"
     /\ \A k \in 1..Len(sWords) : ReMatch(CleanContent(sContent), sWords[k]))
        => sRes.out.excerpts # <<>>

\* C27: the primary (all-terms) excerpt, whenever it is produced, contains
\* every query term as a whole word, after boundary expansion, sentence
\* filtering and joining
C27_PrimaryCoversTerms ==
    (sRes.fn = "Excerpts" /\ sRes.out.best[1] >= 0)
        => /\ Len(sRes.out.excerpts) = 1
           /\ \A k \in 1..Len(sWords) : ReMatch(sRes.out.excerpts[1], sWords[k])

\* the windows <<L, R>> spanned by one occurrence of every term, and the
\* smallest of them, the earliest on a tie
Windows(hits) ==
    {<<f[CHOOSE k \in DOMAIN f : \A j \in DOMAIN f : f[k] <= f[j]],
       f[CHOOSE k \in DOMAIN f : \A j \in DOMAIN f : f[k] >= f[j]]>> :
        f \in {g \in [DOMAIN hits -> 0..ProxMaxLen] : \A k \in DOMAIN hits : g[k] \in hits[k]}}

SmallestEarliest(W) ==
    CHOOSE w \in W : \A v \in W :
        \/ w[2] - w[1] < v[2] - v[1]
        \/ (w[2] - w[1] = v[2] - v[1] /\ w[1] <= v[1])

\* C28: for at least two terms, when a window covering all terms exists, the
\* first excerpt in the output is built from the smallest-span window
\* covering all terms, ties resolved to the earliest such window
C28_FirstFromMinSpanWindow ==
    LET cleaned == CleanContent(sContent)
        hits == [k \in 1..Len(sWords) |-> {i - 1 : i \in Hits(cleaned, sWords[k])}]
    IN  (sRes.fn = "Excerpts" /\ Len(sWords) >= 2 /\ Windows(hits) # {})
            => /\ sRes.out.best = SmallestEarliest(Windows(hits))
               /\ sRes.out.excerpts =
                     <<StitchWindow(cleaned, sWords, sRes.out.best, maxContext(sCap))>>

\* the index of file f in the sequence s, 0 when it is absent
IndexOf(s, f) == IF \E i \in 1..Len(s) : s[i] = f
                 THEN CHOOSE i \in 1..Len(s) : s[i] = f ELSE 0

\* C29: the result list is a subsequence of the matching-paths list, in
\* the order in which the workers appended the paths
C29_ResultsInCompletionOrder ==
    /\ \A i \in 1..Len(results) : IndexOf(matchingFiles, results[i]) > 0
    /\ \A i, j \in 1..Len(results) :
          i < j => IndexOf(matchingFiles, results[i]) < IndexOf(matchingFiles, results[j])

\* two results in completion order that is not discovery order
C29_Witness ==
    /\ Len(results) >= 2
    /\ results[1] > results[2]

\* C30 as stated: results are in discovery order, a file discovered before
\* another precedes it in the result list
C30_ResultsInDiscoveryOrder ==
    \A i, j \in 1..Len(results) : i < j => results[i] < results[j]

\* C30 amended: two results are in discovery order whenever the filter
\* workers finished them in discovery order
C30_DiscoveryOrderIfCompletedInOrder ==
    \A a, b \in ResultSet :
        (a < b /\ IndexOf(matchingFiles, a) < IndexOf(matchingFiles, b))
            => IndexOf(results, a) < IndexOf(results, b)

\* two results that were discovered, finished and emitted in the same order
C30_Witness ==
    \E a, b \in ResultSet :
        /\ a < b
        /\ IndexOf(matchingFiles, a) < IndexOf(matchingFiles, b)
        /\ IndexOf(results, a) < IndexOf(results, b)

\* the term w has a whole-word, plural-tolerant occurrence in the file that
\* ends at or before the byte offset limit
OccursBefore(content, w, limit) ==
    \E i, j \in 1..Len(content) :
        LET e == i + Len(w) - 1
        IN  /\ j <= limit
            /\ e <= j
            /\ \A k \in 1..Len(w) : content[i + k - 1] = w[k]
            /\ (i = 1 \/ ~IsWordChar(content[i - 1]))
            /\ BoundaryAfter(content, j)
            /\ \/ j = e
               \/ (j = e + 1 /\ content[j] = "s")
               \/ (j = e + 2 /\ content[e + 1] = "e" /\ content[j] = "s")

\* C31: if every term has a whole-word occurrence entirely within the
\* first capBytes bytes of the file, the capped prefilter returns
\* (found=true, decided=true), also when the occurrence straddles a chunk
\* boundary
C31_FoundWithinCap ==
    (/\ sRes.fn = "WithCap"
     /\ sFault = "none"
     /\ \A k \in 1..Len(sWords) : OccursBefore(sContent, sWords[k], sCap))
        => (sRes.out.found /\ sRes.out.decided)

\* C32: if the cap is at least the file size (a file of the small size
\* class) and some term has no whole-word occurrence in the file, the capped
\* prefilter returns (found=false, decided=true)
C32_AbsentWithinCap ==
    (/\ sRes.fn = "WithCap"
     /\ sFault = "none"
     /\ Len(sContent) <= SizeLarge
     /\ sCap >= Len(sContent)
     /\ \E k \in 1..Len(sWords) : ~ReMatch(sContent, sWords[k]))
        => (~sRes.out.found /\ sRes.out.decided)

\* C33: everything after --not is an exclusion: when parsing is over, every
\* argument positioned after the first --not is in the exclusion list, in
\* order, and none was taken for a flag, a flag value or a search word
C33_AllAfterNotExcluded ==
    (sRes.fn = "Parse" /\ sRes.out.pc = "done"
        /\ \E n \in 1..Len(sContent) : sContent[n] = "--not")
        => LET first == CHOOSE n \in 1..Len(sContent) :
                            /\ sContent[n] = "--not"
                            /\ \A m \in 1..(n - 1) : sContent[m] # "--not"
           IN  sRes.out.ExcludeWords = SubSeq(sContent, first + 1, Len(sContent))

\* C34: every call of ExecuteWithTimeout returns no later than the timeout,
\* whatever fn does, and it returns nil only if fn returned normally by the
\* deadline
C34_ReturnsByDeadline ==
    sRes.fn = "Exec" =>
        /\ sRes.out.ret = "pending" =>
              /\ sRes.out.now <= sCap
              /\ sRes.out.now = sCap => ENABLED SelectTimeout
              /\ sRes.out.done => ENABLED SelectDone
        /\ sRes.out.ret # "pending" => sRes.out.retAt <= sCap
        /\ sRes.out.ret = "nil" =>
              /\ sRes.out.fnState = "returned"
              /\ sRes.out.fnEnd <= sRes.out.retAt

\* the call has returned the timeout error at the deadline for an fn that
\* panicked
C34_Witness ==
    /\ sRes.fn = "Exec"
    /\ sRes.out.ret = "timeout"
    /\ sRes.out.retAt = sCap
    /\ sRes.out.fnState = "panicked"
    /\ sRes.out.fnEnd < sCap

\* C35: FilterCandidates eventually returns, and when it has returned every
\* candidate has been processed exactly once: the processing count equals
\* the number of candidates
C35_FilterCandidatesReturns ==
    /\ <>(mpc \in {"results", "rwait", "done"})
    /\ [](mpc \in {"results", "rwait", "done"} => processed = NumFiles)

\* C36: the set of result paths does not depend on the schedule or on
\* timing: every reason for which a file is left out is a fact about the
\* file, the query or the options, never the expiry of a timer or the wait
\* for a semaphore slot
C36_ResultSetScheduleFree ==
    lastDrop.why \notin {"timeout", "pdf-token-timeout", "pdf-wall-timeout", "result-timeout"}

C39_LargeScanTerminates ==
    <>(sRes.fn = "Large" /\ sRes.out.pc = "returned")

\* C38: the progress listener never blocks the worker that calls it, from
\* any number of workers at once and with nobody receiving from the
\* channel.  A call takes at most five steps of its worker (lock, critical
\* section and unlock, and up to three selects); after the lock every one of
\* these steps can be taken at once, whatever the channel holds; and while a
\* caller waits for progressMu, the holder's own next step is the unlock,
\* which waits for nothing
C38_ListenerNeverBlocks ==
    sRes.fn = "Progress" =>
        \A w \in Workers :
            /\ sRes.out.steps[w] <= 5
            /\ sRes.out.lpc[w] = "unlock" => ENABLED MuUnlock(w)
            /\ sRes.out.lpc[w] = "send" => ENABLED TrySend(w)
            /\ sRes.out.lpc[w] = "drop" => ENABLED DropOldest(w)
            /\ sRes.out.lpc[w] = "resend" => ENABLED Resend(w)
            /\ sRes.out.lpc[w] = "lock" =>
                  \/ ENABLED MuLock(w)
                  \/ \E t \in Threads :
                        sRes.out.mu = t /\ ENABLED MuUnlock(t)

\* C38 happens: with the channel full and another worker in the middle of
\* its own call, a worker has returned from a call that found the channel
\* full, dropped the oldest message and sent again
C38_Witness ==
    /\ sRes.fn = "Progress"
    /\ Len(sRes.out.chan) = sCap
    /\ \E w, v \in Workers :
          /\ w # v
          /\ sRes.out.lpc[w] = "idle"
          /\ sRes.out.steps[w] = 5
          /\ sRes.out.chan[Len(sRes.out.chan)] = w
          /\ sRes.out.lpc[v] \in {"send", "drop", "resend"}

====
